---------------------------- MODULE Spec2Model ----------------------------
(***************************************************************************)
(* A model of the hashing core of hd4linux (src/src/hashing.rs): the       *)
(* fixed-width digest with its hexadecimal text form and its carry-adding   *)
(* combination operator, the directory folds built on it, the content      *)
(* hash tree that chash builds from a byte stream, the modification hash,  *)
(* and the tree that from_api_hashes builds from the records of an API     *)
(* response; of the chunk-border finder (src/src/chunking.rs); and of the  *)
(* OAuth2 client (src/src/oauth2.rs): the log-in flow with its redirect    *)
(* server, and the Authorizer that caches and refreshes the access token.  *)
(*                                                                         *)
(* Digests are sequences of HASH_BYTES bytes, byte 1 of the model being    *)
(* byte 0 of the source (the most significant one).  Strings are sequences *)
(* of UTF-8 bytes, as Rust's str is, a byte being a number in 0..255.      *)
(*                                                                         *)
(* The digest width and the block size are scaled down (the source has     *)
(* HASH_BYTES = 20 and BLOCK_SIZE = 4096); every definition is written in  *)
(* terms of them, so that nothing depends on the scaled values.            *)
(***************************************************************************)
EXTENDS Integers, Sequences, FiniteSets

(***************************************************************************)
(* Sizes.                                                                  *)
(***************************************************************************)
\* hashing.rs:19 has HASH_BYTES = 20; the model keeps digests of this many bytes.
HASH_BYTES == 3

\* u8: the number of values of a byte (carrying_add_u8 wraps at this value).
U8 == 256

\* Longest member list handed to chash_dir / mohash_dir (both lists together).
MaxMembers == 3

\* hashing.rs:20 has BLOCK_SIZE = 4096; the model reads blocks of this many bytes.
BLOCK_SIZE == 2

\* The number of digests of a level that fold into one digest of the next.
LEVEL_GROUP == 256

\* Longest stream whose reads may return any number of bytes.
MaxStream == 5

Min(a, b) == IF a < b THEN a ELSE b

(***************************************************************************)
(* Hash: a HASH_BYTES-byte value.                                          *)
(***************************************************************************)
\* Hash::new: the all-zero digest.
HashNew == [i \in 1..HASH_BYTES |-> 0]

\* Hash::is_zero_hash.
IsZeroHash(h) == ~(\E i \in 1..Len(h) : h[i] # 0)

\* a.overflowing_add(b) on u8: the wrapped sum and whether it wrapped.
OverflowingAdd(a, b) == <<(a + b) % U8, a + b >= U8>>

CarryDroppedAddU8(a, b, carry) ==
    LET sc == OverflowingAdd(a, b)
        de == OverflowingAdd(sc[1], IF carry THEN 1 ELSE 0)
    IN  <<de[1], sc[2]>>

\* carrying_add_u8(a, b, carry) = (d, c || e).
CarryingAddU8(a, b, carry) ==
    LET sc == OverflowingAdd(a, b)
        de == OverflowingAdd(sc[1], IF carry THEN 1 ELSE 0)
    IN  <<de[1], sc[2] \/ de[2]>>

\* The loop of add_hashes: i runs from the last byte down to the first, r is
\* the result so far and carry the carry out of byte i + 1.
RECURSIVE AddLoop(_, _, _, _, _)
AddLoop(h1, h2, i, r, carry) ==
    IF i = 0 THEN r
    ELSE LET sc == CarryingAddU8(h1[i], h2[i], carry)
         IN  AddLoop(h1, h2, i - 1, [r EXCEPT ![i] = sc[1]], sc[2])

ForwardAddHashes(h1, h2) ==
    LET F[i \in 1..(Len(h1) + 1)] ==
            IF i = 1 THEN <<HashNew, FALSE>>
            ELSE LET sc == CarryingAddU8(h1[i - 1], h2[i - 1], F[i - 1][2])
                 IN  <<[F[i - 1][1] EXCEPT ![i - 1] = sc[1]], sc[2]>>
    IN  F[Len(h1) + 1][1]

\* add_hashes(h1, h2); the source asserts that both hold the same number of bytes.
AddHashes(h1, h2) == AddLoop(h1, h2, Len(h1), HashNew, FALSE)

(***************************************************************************)
(* The hexadecimal text form.                                              *)
(***************************************************************************)
\* The character {:x} writes for a digit value 0..15: '0'..'9', 'a'..'f'.
HexChar(d) == IF d < 10 THEN 48 + d ELSE 87 + d

UpperHexChar(d) == IF d < 10 THEN 48 + d ELSE 55 + d

\* {:02x} of one byte: two lowercase digits, the high one first.
FmtByte(b) == <<HexChar(b \div 16), HexChar(b % 16)>>

RECURSIVE FmtFrom(_, _)
FmtFrom(h, i) == IF i > Len(h) THEN <<>> ELSE FmtByte(h[i]) \o FmtFrom(h, i + 1)

SwappedToString(h) ==
    LET F[i \in 1..(Len(h) + 1)] ==
            IF i > Len(h) THEN <<>>
            ELSE <<HexChar(h[i] % 16), HexChar(h[i] \div 16)>> \o F[i + 1]
    IN  F[1]

\* Display for Hash (to_string): the bytes 0..19 in order, each as {:02x}.
ToString(h) == FmtFrom(h, 1)

\* char::to_digit(16): the value of a hexadecimal digit, -1 for any other byte.
ToDigit(c) ==
    IF 48 <= c /\ c <= 57 THEN c - 48
    ELSE IF 97 <= c /\ c <= 102 THEN c - 87
    ELSE IF 65 <= c /\ c <= 70 THEN c - 55
    ELSE -1

\* u8::from_str_radix(src, 16) of the standard library on a two-byte slice:
\* one leading '+' is taken as a sign (a '-' is not, for an unsigned type) and
\* every other byte must be a digit.  -1 stands for Err(ParseIntError).
FromStrRadix16(src) ==
    LET digits == IF src[1] = 43 THEN SubSeq(src, 2, Len(src)) ELSE src
        RECURSIVE Val(_, _)
        Val(k, acc) ==
            IF k > Len(digits) THEN acc
            ELSE IF ToDigit(digits[k]) < 0 THEN -1
            ELSE IF acc * 16 + ToDigit(digits[k]) >= U8 THEN -1
            ELSE Val(k + 1, acc * 16 + ToDigit(digits[k]))
    IN  IF Len(digits) = 0 THEN -1 ELSE Val(1, 0)

\* str::is_char_boundary(idx), idx counted from 0: the start, the end, or a
\* byte that is not a UTF-8 continuation byte (0x80..0xBF).
IsCharBoundary(s, idx) ==
    \/ idx = 0
    \/ idx = Len(s)
    \/ idx < Len(s) /\ ~(128 <= s[idx + 1] /\ s[idx + 1] < 192)

\* The loop of Hash::parse: byte i (from 0) is parsed from &sha1[2i..2i + 2]; the
\* slice panics off a character boundary, and `?` returns the first error.
RECURSIVE ParseLoop(_, _, _)
ParseLoop(s, i, h) ==
    IF i = HASH_BYTES THEN [kind |-> "ok", h |-> h]
    ELSE IF ~(IsCharBoundary(s, 2 * i) /\ IsCharBoundary(s, 2 * i + 2))
         THEN [kind |-> "panic", h |-> HashNew]
    ELSE LET v == FromStrRadix16(SubSeq(s, 2 * i + 1, 2 * i + 2))
         IN  IF v < 0 THEN [kind |-> "err", h |-> HashNew]
             ELSE ParseLoop(s, i + 1, [h EXCEPT ![i + 1] = v])

\* Hash::parse(sha1): sha1.len() is the length in bytes.
Parse(s) ==
    IF Len(s) # 2 * HASH_BYTES THEN [kind |-> "err", h |-> HashNew]
    ELSE ParseLoop(s, 0, HashNew)

(***************************************************************************)
(* Directory folds.                                                        *)
(***************************************************************************)
\* `for mh in hashes { h = add_hashes(h, &mh.0) }` from position i on.
RECURSIVE FoldFrom(_, _, _)
FoldFrom(h, hashes, i) ==
    IF i > Len(hashes) THEN h
    ELSE FoldFrom(AddHashes(h, hashes[i]), hashes, i + 1)

MembersOnlyChashDir(mhashes, chashes) == FoldFrom(HashNew, mhashes, 1)

\* chash_dir(mhashes, chashes).
ChashDir(mhashes, chashes) == FoldFrom(FoldFrom(HashNew, mhashes, 1), chashes, 1)

\* mohash_dir(mhashes).
MohashDir(mhashes) == FoldFrom(HashNew, mhashes, 1)

(***************************************************************************)
(* The content hash tree.                                                  *)
(***************************************************************************)
\* Sha1::new().update(bytes).finalize() of the sha1 crate, which is not part
\* of this repository: a fixed function of the bytes and of their number,
\* here a polynomial checksum spread over HASH_BYTES bytes, the first of which
\* is never 0 (no input is known whose SHA-1 is the all-zero digest).
RECURSIVE Sha1State(_, _, _)
Sha1State(bytes, i, acc) ==
    IF i > Len(bytes) THEN acc
    ELSE Sha1State(bytes, i + 1, (acc * 31 + bytes[i] + 1) % 65521)

Sha1(bytes) ==
    LET st == Sha1State(bytes, 1, 7)
    IN  [j \in 1..HASH_BYTES |->
            IF j = 1 THEN 1 + (st % (U8 - 1)) ELSE ((st * (2 * j + 1)) \div 7) % U8]

\* buf.iter().any(|e| *e != 0)
AnyNonZero(buf) == \E i \in 1..Len(buf) : buf[i] # 0

AlwaysHashedLeaf(buf) == Sha1(buf)

\* The digest chash pushes to level 0 for the buffer of one read: the buffer
\* is hashed whole, and only if it has a non-zero byte.
LeafHash(buf) == IF AnyNonZero(buf) THEN Sha1(buf) ELSE HashNew

UnpaddedBuffer(bytes) == bytes

\* `let mut buf = [0_u8; BLOCK_SIZE]` after r.read(&mut buf) has returned
\* Len(bytes): the bytes read, and zeroes up to BLOCK_SIZE.
BufferAfterRead(bytes) ==
    [i \in 1..BLOCK_SIZE |-> IF i <= Len(bytes) THEN bytes[i] ELSE 0]

\* One pass of the loop of HashLevel::collapse, for position i (counted from
\* 0) of level h: st[1] is the next level so far (nhl), st[2] the sum of the
\* current group (current_sum).
CollapseStep(h, st, i) ==
    LET starts == i % LEVEL_GROUP = 0 /\ i > 0
        nhl    == IF starts THEN Append(st[1], st[2]) ELSE st[1]
        sum    == IF starts THEN HashNew ELSE st[2]
    IN  IF IsZeroHash(h[i + 1]) THEN <<nhl, sum>>
        ELSE <<nhl, AddHashes(sum, Sha1(h[i + 1] \o <<i % U8>>))>>

ZeroFirstStep(h, st, i) ==
    IF IsZeroHash(h[i + 1]) THEN st
    ELSE LET starts == i % LEVEL_GROUP = 0 /\ i > 0
             nhl    == IF starts THEN Append(st[1], st[2]) ELSE st[1]
             sum    == IF starts THEN HashNew ELSE st[2]
         IN  <<nhl, AddHashes(sum, Sha1(h[i + 1] \o <<i % U8>>))>>

\* The passes for the positions lo .. hi - 1 in turn, from state st.  (The
\* range is halved, and the state after the first half is bound as a value
\* before the second half runs on it, so that a level of several hundred
\* digests does not nest the evaluation several hundred deep; the passes run
\* in the loop's order.)
RECURSIVE CollapseLoop(_, _, _, _)
CollapseLoop(h, st, lo, hi) ==
    IF hi <= lo THEN st
    ELSE IF hi = lo + 1 THEN CollapseStep(h, st, lo)
    ELSE LET mid == (lo + hi) \div 2
         IN  CHOOSE r \in {CollapseLoop(h, half, mid, hi) :
                              half \in {CollapseLoop(h, st, lo, mid)}} : TRUE

RECURSIVE ZeroFirstLoop(_, _, _, _)
ZeroFirstLoop(h, st, lo, hi) ==
    IF hi <= lo THEN st
    ELSE IF hi = lo + 1 THEN ZeroFirstStep(h, st, lo)
    ELSE LET mid == (lo + hi) \div 2
         IN  CHOOSE r \in {ZeroFirstLoop(h, half, mid, hi) :
                              half \in {ZeroFirstLoop(h, st, lo, mid)}} : TRUE

ZeroFirstCollapse(h) ==
    LET st == ZeroFirstLoop(h, <<<<>>, HashNew>>, 0, Len(h))
    IN  Append(st[1], st[2])

\* HashLevel::collapse: the loop over all positions, then the last push.
Collapse(h) ==
    LET st == CollapseLoop(h, <<<<>>, HashNew>>, 0, Len(h))
    IN  Append(st[1], st[2])

BestEffortTree(level0) == [cpc |-> "fold", hashes |-> <<level0>>]

\* `r.read(&mut buf).await?` on an error, level 0 being level0 so far: chash
\* returns the error; no Hashes value is made.
OnReadError(level0) == [cpc |-> "err", hashes |-> <<>>]

AtMostOneLeft(l) == Len(l[Len(l)]) <= 1

\* The test that ends the folding loop of chash: the last level holds one digest.
OneLeft(l) == Len(l[Len(l)]) = 1

BottomHash(l) == IF l[1] = <<>> THEN l[Len(l)][1] ELSE l[1][1]

\* Hashes::top_hash.
TopHash(l) == l[Len(l)][1]

(***************************************************************************)
(* The name hash and the modification hash.                                *)
(***************************************************************************)
\* The number of bytes of a u64 and of an i64: what to_le_bytes returns.
INT_BYTES == 8

\* The path separator '/'.
SEPARATOR == 47

\* Path::file_name for a path that ends in a normal component: the bytes
\* after the last separator.
RECURSIVE FileName(_)
FileName(path) ==
    IF \E i \in 1..Len(path) : path[i] = SEPARATOR
    THEN FileName(Tail(path))
    ELSE path

\* nhash: the digest of the bytes of the file name.
Nhash(filename) == Sha1(FileName(filename))

RECURSIVE BeBytesFrom(_, _)
BeBytesFrom(v, k) ==
    IF k = 0 THEN <<>> ELSE Append(BeBytesFrom(v \div U8, k - 1), v % U8)

ToBeBytes(v) == BeBytesFrom(v, INT_BYTES)

\* The k low bytes of v, the least significant first; v \div U8 rounds down,
\* so a negative v gives the bytes of its two's complement.
RECURSIVE LeBytesFrom(_, _)
LeBytesFrom(v, k) ==
    IF k = 0 THEN <<>> ELSE <<v % U8>> \o LeBytesFrom(v \div U8, k - 1)

\* u64::to_le_bytes and i64::to_le_bytes.
ToLeBytes(v) == LeBytesFrom(v, INT_BYTES)

(***************************************************************************)
(* Hashes::from_api_hashes: a tree from the records of an API response.    *)
(* A record (types::HashedBlock) is [level, block, hash]; by_level maps a  *)
(* level to the (block, hash) pairs of its records.                        *)
(***************************************************************************)
\* by_level.entry(hb.level).and_modify(push).or_insert_with(vec![..])
EntryPush(by_level, hb) ==
    [l \in DOMAIN by_level \cup {hb.level} |->
        IF l \in DOMAIN by_level
        THEN (IF l = hb.level THEN Append(by_level[l], <<hb.block, hb.hash>>)
                              ELSE by_level[l])
        ELSE <<<<hb.block, hb.hash>>>>]

\* usize::max
UsizeMax(a, b) == IF a < b THEN b ELSE a

\* by_level.remove(&i): the map without level i.
Remove(by_level, i) == [l \in DOMAIN by_level \ {i} |-> by_level[l]]

KeepInputOrder(hashes) == hashes

\* hashes.sort_by(|(k, _), (kk, _)| k.cmp(kk)): a stable sort by block number;
\* each pair goes behind the pairs before it whose block is not greater.
RECURSIVE SortByBlock(_)
SortByBlock(hashes) ==
    IF hashes = <<>> THEN <<>>
    ELSE LET front == SortByBlock(SubSeq(hashes, 1, Len(hashes) - 1))
             e == hashes[Len(hashes)]
             k == Cardinality({j \in 1..Len(front) : front[j][1] <= e[1]})
         IN  SubSeq(front, 1, k) \o <<e>> \o SubSeq(front, k + 1, Len(front))

\* hashes.into_iter().map(|(_, v)| v).collect()
Values(hashes) == [j \in 1..Len(hashes) |-> hashes[j][2]]

SkipMissingLevel(by_level, hash_levels, i) ==
    IF i \in DOMAIN by_level
    THEN [err |-> FALSE,
          hash_levels |-> Append(hash_levels, Values(SortByBlock(by_level[i])))]
    ELSE [err |-> FALSE, hash_levels |-> hash_levels]

EmptyLevelForMissing(by_level, hash_levels, i) ==
    IF i \in DOMAIN by_level
    THEN [err |-> FALSE,
          hash_levels |-> Append(hash_levels, Values(SortByBlock(by_level[i])))]
    ELSE [err |-> FALSE, hash_levels |-> Append(hash_levels, <<>>)]

\* One pass of the loop over the levels 0..max_level, for level i: the level
\* of the sorted digests is pushed, or the level is missing and the function
\* returns an error.
LevelStep(by_level, hash_levels, i) ==
    IF i \in DOMAIN by_level
    THEN [err |-> FALSE,
          hash_levels |-> Append(hash_levels, Values(SortByBlock(by_level[i])))]
    ELSE [err |-> TRUE, hash_levels |-> hash_levels]

(***************************************************************************)
(* find_borders (src/src/chunking.rs).  A u32 is a pair <<high, low>> of   *)
(* two 16-bit halves.                                                      *)
(***************************************************************************)
\* The number of bits of a u32.
U32_BITS == 32

\* The number of values of half a u32.
HALF == 65536

RECURSIVE Pow2(_)
Pow2(e) == IF e = 0 THEN 1 ELSE 2 * Pow2(e - 1)

\* 0xffffffff
ALL_ONES == <<HALF - 1, HALF - 1>>

\* v >> n for 0 <= n < U32_BITS.
Shr(v, n) ==
    IF 2 * n >= U32_BITS
    THEN <<0, v[1] \div Pow2(n - U32_BITS \div 2)>>
    ELSE <<v[1] \div Pow2(n),
           (v[2] \div Pow2(n)) + (v[1] % Pow2(n)) * Pow2(U32_BITS \div 2 - n)>>

\* a & b on halves, and on u32 values.
RECURSIVE BitAnd(_, _)
BitAnd(a, b) ==
    IF a = 0 \/ b = 0 THEN 0
    ELSE (a % 2) * (b % 2) + 2 * BitAnd(a \div 2, b \div 2)

And32(v, w) == <<BitAnd(v[1], w[1]), BitAnd(v[2], w[2])>>

\* `assert!(zerobits <= 32); let mask: u32 = 0xffffffff >> (32 - zerobits);`
\* The assertion panics for zerobits > 32.  A shift by U32_BITS (zerobits = 0)
\* overflows: it panics in a build with overflow checks (checked), and
\* shifts by the amount modulo U32_BITS in a build without.
MaskOf(zerobits, checked) ==
    IF zerobits > U32_BITS THEN [panic |-> TRUE, mask |-> <<0, 0>>]
    ELSE IF U32_BITS - zerobits >= U32_BITS /\ checked
         THEN [panic |-> TRUE, mask |-> <<0, 0>>]
    ELSE [panic |-> FALSE,
          mask |-> Shr(ALL_ONES, (U32_BITS - zerobits) % U32_BITS)]

\* RollingDualCrc::get32 of the rolling_dual_crc crate, which is not part of
\* this repository: a fixed 32-bit function of the bytes of the window, here
\* with the high nibbles of the bytes summed into the high half and the low
\* nibbles shifted into the low half.
RECURSIVE Get32From(_, _, _)
Get32From(window, k, acc) ==
    IF k > Len(window) THEN acc
    ELSE Get32From(window, k + 1,
                   <<(acc[1] + (window[k] \div 16)) % HALF,
                     ((acc[2] * 16) + (window[k] % 16)) % HALF>>)

Get32(window) == Get32From(window, 1, <<0, 0>>)

\* RollingDualCrc::roll(b): the oldest byte leaves the window, b enters it.
Roll(window, b) == Append(Tail(window), b)

FillFromStart(buf, filled, bytes) ==
    [k \in 1..Len(buf) |-> IF k <= Len(bytes) THEN bytes[k] ELSE buf[k]]

\* read_exact: the bytes of one read go behind the filled bytes of buf.
Fill(buf, filled, bytes) ==
    [k \in 1..Len(buf) |->
        IF k > filled /\ k <= filled + Len(bytes) THEN bytes[k - filled]
        ELSE buf[k]]

\* if rdc.get32() & mask == 0 { borders.push(i); }
Tested(borders, i, window, mask) ==
    IF And32(Get32(window), mask) = <<0, 0>> THEN Append(borders, i) ELSE borders

SameOffset(i) == i

\* i += 1
NextOffset(i) == i + 1

(***************************************************************************)
(* A tree listed as records, the way the API lists it.                     *)
(***************************************************************************)
\* The records of the levels from L on (levels and blocks count from 0).
RECURSIVE RecordsFrom(_, _)
RecordsFrom(tree, L) ==
    IF L > Len(tree) THEN <<>>
    ELSE [j \in 1..Len(tree[L]) |->
              [level |-> L - 1, block |-> j - 1, hash |-> tree[L][j]]]
         \o RecordsFrom(tree, L + 1)

SameBlockRecords(tree) ==
    [j \in 1..Len(RecordsFrom(tree, 1)) |->
        [RecordsFrom(tree, 1)[j] EXCEPT !.block = 0]]

TreeRecords(tree) == RecordsFrom(tree, 1)

\* Orders in which a list may arrive: each rotation, forwards and backwards.
Orders(l) ==
    LET n == Len(l)
        Rot(k) == [j \in 1..n |-> l[((j + k - 1) % n) + 1]]
        Rev(q) == [j \in 1..n |-> q[n + 1 - j]]
    IN  IF n = 0 THEN {l}
        ELSE {Rot(k) : k \in 0..(n - 1)} \cup {Rev(Rot(k)) : k \in 0..(n - 1)}

(***************************************************************************)
(* The OAuth2 log-in flow (src/src/oauth2.rs).  A string is a sequence of  *)
(* tokens: the separators "&" and "=", and pieces of text without them     *)
(* ("code", "k", "X", "Y").  An Option is <<>> for None and <<v>> for      *)
(* Some(v).                                                                *)
(***************************************************************************)
\* q.split(sep): the pieces of q between the separators, from position i on,
\* piece being the piece read so far.
RECURSIVE SplitFrom(_, _, _, _)
SplitFrom(q, sep, i, piece) ==
    IF i > Len(q) THEN <<piece>>
    ELSE IF q[i] = sep THEN <<piece>> \o SplitFrom(q, sep, i + 1, <<>>)
    ELSE SplitFrom(q, sep, i + 1, Append(piece, q[i]))

\* kv.split_once('='): None, or Some((k, v)) for the first '='.
SplitOnce(kv) ==
    IF \E i \in 1..Len(kv) : kv[i] = "="
    THEN LET i == CHOOSE j \in 1..Len(kv) :
                      kv[j] = "=" /\ \A m \in 1..(j - 1) : kv[m] # "="
         IN  <<<<SubSeq(kv, 1, i - 1), SubSeq(kv, i + 1, Len(kv))>>>>
    ELSE <<>>

FirstCodeFrom(kvs, n, code) ==
    IF \E m \in 1..Len(kvs) : SplitOnce(kvs[m]) # <<>>
                                 /\ SplitOnce(kvs[m])[1][1] = <<"code">>
    THEN LET m == CHOOSE j \in 1..Len(kvs) :
                      /\ SplitOnce(kvs[j]) # <<>>
                      /\ SplitOnce(kvs[j])[1][1] = <<"code">>
                      /\ \A x \in 1..(j - 1) :
                            SplitOnce(kvs[x]) = <<>>
                            \/ SplitOnce(kvs[x])[1][1] # <<"code">>
         IN  <<SplitOnce(kvs[m])[1][2]>>
    ELSE <<>>

\* The loop of handle over kvs, from piece n on: code is Some(v) for the last
\* piece "code=v" seen.
RECURSIVE CodeFrom(_, _, _)
CodeFrom(kvs, n, code) ==
    IF n > Len(kvs) THEN code
    ELSE LET kv == SplitOnce(kvs[n])
         IN  IF kv # <<>> /\ kv[1][1] = <<"code">>
             THEN CodeFrom(kvs, n + 1, <<kv[1][2]>>)
             ELSE CodeFrom(kvs, n + 1, code)

\* The LogInResult values.
ResultOk(code) == [ok |-> TRUE, code |-> code, error |-> "", error_description |-> ""]

ResultErr(error, description) ==
    [ok |-> FALSE, code |-> <<>>, error |-> error, error_description |-> description]

\* RedirectHandlingServer::handle: the LogInResult sent for a request whose
\* URI has the query `query` (an Option).
HandleResult(query) ==
    IF query = <<>>
    THEN ResultErr("clientside", "no query string was supplied by the callback request")
    ELSE LET code == CodeFrom(SplitFrom(query[1], "&", 1, <<>>), 1, <<>>)
         IN  IF code # <<>> THEN ResultOk(code[1])
             ELSE ResultErr("clientside",
                            "no 'code' parameter supplied in callback request")

FirstSent(r) ==
    IF r = <<>> THEN ResultOk(<<>>) ELSE r[1]

\* r.recv().now_or_never() after the server has shut down, r being the
\* messages in the result channel (its senders are alive).
NowOrNever(r) ==
    IF r = <<>> THEN ResultErr("timeout", "OAuth wait for code aborted by app logic")
    ELSE r[1]

KeepState(state, res) == IF res.ok THEN "ReceivedCode" ELSE state

\* wait_for_redirect: the state it sets for the result of the server.
WaitState(state, res) == IF res.ok THEN "ReceivedCode" ELSE "Error"

AnyStateCheck(state, authz_code) ==
    IF authz_code = <<>> THEN "No code obtained yet!" ELSE "go"

\* exchange_code: its two checks before the request.
ExchangeCheck(state, authz_code) ==
    IF state # "ReceivedCode" THEN "wrong state"
    ELSE IF authz_code = <<>> THEN "No code obtained yet!"
    ELSE "go"

ErrorOnFailure(outcome) == IF outcome = "credentials" THEN "Complete" ELSE "Error"

\* exchange_code after the request was built: the state at its return, for
\* the outcomes "transport error", "bad body" and "credentials".
ExchangeState(outcome) ==
    IF outcome = "credentials" THEN "Complete" ELSE "ExchangingCode"

(***************************************************************************)
(* Inputs of the digest operations.                                        *)
(***************************************************************************)
\* The digest whose first byte is hi, whose last byte is lo and whose bytes in
\* between are all mid.
Digest3(hi, mid, lo) ==
    [i \in 1..HASH_BYTES |-> IF i = 1 THEN hi ELSE IF i = HASH_BYTES THEN lo ELSE mid]

\* Sums of these carry into, through and out of every byte.
SampleBytes == {0, 1, 255}

DigestSample ==
    {Digest3(hi, mid, lo) : hi \in SampleBytes, mid \in SampleBytes, lo \in SampleBytes}

\* The members of directories: a few of the digests above.
MemberSample ==
    {Digest3(t[1], t[2], t[3]) :
        t \in {<<0, 0, 0>>, <<0, 0, 1>>, <<0, 1, 0>>, <<0, 255, 255>>,
               <<255, 0, 1>>, <<255, 255, 255>>}}

\* Digests for the text form: bytes whose two hexadecimal digits differ, and
\* digits on both sides of 9 / a.
TextBytes == {0, 1, 9, 10, 154, 255}

TextDigestSample == {Digest3(hi, lo, lo) : hi \in TextBytes, lo \in TextBytes}

\* The lists of at most n digests of the sample.
RECURSIVE ListsUpTo(_)
ListsUpTo(n) ==
    IF n = 0 THEN {<<>>}
    ELSE LET shorter == ListsUpTo(n - 1)
         IN  shorter \cup {Append(l, d) : l \in shorter, d \in MemberSample}

\* Characters put into a digest's text: a capital digit, signs, a blank, a
\* letter that is no digit, and 0 for the two bytes of U+00E9.
SampleChars == {65, 43, 45, 32, 103, 0}

\* s with the character at byte position p (from 1) replaced by c.
Replace(s, p, c) ==
    IF c # 0 THEN [s EXCEPT ![p] = c]
    ELSE IF p < Len(s) THEN [s EXCEPT ![p] = 195, ![p + 1] = 169]
    ELSE s

\* Valid UTF-8 over the bytes used here: 0xC3 is followed by a continuation
\* byte and a continuation byte follows 0xC3.
IsUtf8(s) ==
    \A p \in 1..Len(s) :
        /\ s[p] = 195 => (p < Len(s) /\ s[p + 1] = 169)
        /\ s[p] = 169 => (p > 1 /\ s[p - 1] = 195)

\* A digest's text with up to two characters replaced, cut by one character
\* or longer by one.
StringSample ==
    LET texts == {ToString(h) : h \in MemberSample}
                   \cup {[i \in 1..(2 * HASH_BYTES) |-> UpperHexChar(10 + (i % 6))]}
        one   == {Replace(t, p, c) : t \in texts, p \in 1..(2 * HASH_BYTES),
                                     c \in SampleChars}
        two   == {Replace(t, p, c) : t \in one, p \in 1..(2 * HASH_BYTES),
                                     c \in SampleChars}
        all   == texts \cup one \cup two
        cut   == {SubSeq(t, 1, Len(t) - 1) : t \in texts \cup one}
        more  == {Append(t, c) : t \in texts \cup one, c \in {48, 43}}
        plain == {ToString(h) : h \in TextDigestSample}
    IN  {s \in all \cup cut \cup more \cup plain \cup {<<>>} : IsUtf8(s)}

(***************************************************************************)
(* Streams handed to chash.                                                *)
(***************************************************************************)
StreamBytes == {0, 1}

\* Every stream of at most MaxStream bytes.
ShortStreams == UNION {[1..n -> StreamBytes] : n \in 0..MaxStream}

\* Streams of some hundred blocks: "dense" has no zero block, "holes" has zero
\* blocks at the first two positions of every group of LEVEL_GROUP blocks,
\* "sparse" has non-zero blocks only on both sides of the first group's end.
\* The last block lacks `tail` bytes.
LongStream(nblocks, kind, tail) ==
    [p \in 1..(nblocks * BLOCK_SIZE - tail) |->
        LET b == (p - 1) \div BLOCK_SIZE
        IN  CASE kind = "dense"  -> 1 + (p % 3)
              [] kind = "holes"  -> IF b % LEVEL_GROUP \in {0, 1} THEN 0 ELSE 1 + (b % 5)
              [] kind = "sparse" -> IF b \in {LEVEL_GROUP - 1, LEVEL_GROUP}
                                    THEN 1 + (p % 2) ELSE 0]

LongStreams ==
    {LongStream(n, kind, tail) :
        n \in {LEVEL_GROUP, LEVEL_GROUP + 1, 2 * LEVEL_GROUP + 1},
        kind \in {"dense", "holes", "sparse"},
        tail \in {0, 1}}

\* File names handed to mhash: plain names, a name of a multi-byte character
\* and a path with a directory.
NameSample == {<<104>>, <<104, 105>>, <<226, 152, 129>>, <<100, 47, 104>>}

\* Modification times (seconds since the epoch, an i64).
MtimeSample == {0, 1, -1, -256, 1456789012, -2147483647}

\* Sizes (an Option<u64>): <<>> is None, <<s>> is Some(s).
SizeSample == {<<>>, <<0>>, <<1>>, <<256>>, <<2147483647>>}

\* Longest list of records handed to from_api_hashes.
MaxRecords == 3

\* The records of an API response: levels with and without gaps, block numbers
\* with and without gaps, two digests.
RecordSample ==
    [level : {0, 1, 2}, block : {0, 3},
     hash : {Digest3(1, 0, 0), Digest3(255, 0, 1)}]

RECURSIVE RecordLists(_)
RecordLists(n) ==
    IF n = 0 THEN {<<>>}
    ELSE LET shorter == RecordLists(n - 1)
         IN  shorter \cup {Append(l, r) : l \in {x \in shorter : Len(x) = n - 1},
                                           r \in RecordSample}

\* Greatest window size handed to find_borders, and longest stream.
MaxWindow == 2

MaxScanned == 4

\* Bytes of the scanned streams: a zero fingerprint, fingerprints with few
\* and with many low zero bits.
ScanBytes == {0, 1, 16}

RECURSIVE ScanStreams(_)
ScanStreams(n) ==
    IF n = 0 THEN {<<>>}
    ELSE LET shorter == ScanStreams(n - 1)
         IN  shorter \cup {Append(str, b) : str \in {x \in shorter : Len(x) = n - 1},
                                             b \in ScanBytes}

\* Mask widths: none, within the low half, the low half, all bits, too many.
ZerobitsSample == {0, 4, 5, 16, U32_BITS, U32_BITS + 1}

(***************************************************************************)
(* The Authorizer (src/src/oauth2.rs).  Times are whole seconds.            *)
(***************************************************************************)

\* The seconds before the expiry at which a token is no longer used.
REFRESH_MARGIN == 30

\* (self.cred.expires_in - 30) as f64 seconds, a subtraction of usize values:
\* the difference, or, where the build wraps, a value whose low 16 bits are
\* `secs` and whose higher bits are all one (no Instant is that old).
ExpiryLimit(expires_in) ==
    IF expires_in >= REFRESH_MARGIN
    THEN [wrapped |-> FALSE, secs |-> expires_in - REFRESH_MARGIN]
    ELSE [wrapped |-> TRUE, secs |-> (expires_in - REFRESH_MARGIN) % HALF]

\* c.elapsed() < limit
NotExpired(age, limit) == limit.wrapped \/ age < limit.secs

\* What `self.x = f().await?` leaves in x: the old value if f failed.
TakeNew(outcome, old, new) == new

AfterRefresh(outcome, old, new) == IF outcome = "credentials" THEN new ELSE old

\* The greatest time on the clock.
MaxClock == 3

\* Credentials, as loaded from a file or sent by the provider.
CredSample ==
    [refresh_token : {"r1", "r2"}, expires_in : {0, 29, 30, 31, 32},
     access_token : {"a1", "a2"}]

\* The capacity of the result channel and of the shutdown channel.
CHANNEL_CAPACITY == 1

\* The greatest number of callback requests the redirect server accepts in
\* one run.
MaxRequests == 2

\* The queries of callback requests: none, the empty one, with one code, with
\* another parameter first, with two codes, a bare "code", an empty code, the
\* text "code" as a value, a code with '=' in it, and a key that ends in
\* "code".
QuerySample ==
    {<<>>,
     <<<<>>>>,
     <<<<"code", "=", "X">>>>,
     <<<<"k", "=", "X", "&", "code", "=", "Y">>>>,
     <<<<"code", "=", "X", "&", "code", "=", "Y">>>>,
     <<<<"code">>>>,
     <<<<"code", "=">>>>,
     <<<<"k", "=", "code">>>>,
     <<<<"code", "=", "X", "=", "Y">>>>,
     <<<<"k", "code", "=", "X">>>>}

\* Codes supplied out of band.
CodeSample == {<<"X">>, <<"Z">>}

(***************************************************************************)
(* State.                                                                  *)
(***************************************************************************)
VARIABLES
    cpc,        \* where chash is: "idle", "read", "fold", "done" (Ok), "err"
    stream,     \* the bytes of the reader r
    full,       \* whether r fills the buffer whenever that many bytes are left
    rpos,       \* the number of bytes of r read so far
    buf,        \* the buffer of the last read
    nread,      \* what the last read returned: the number of bytes it read
    l0,         \* level 0 as built so far
    hashes,     \* the tree: its levels, level 0 first
    rfail       \* whether a read of r has returned an error

VARIABLES
    hcall,      \* the digest operation called last, "none" before the first
    hin,        \* its digest arguments: the first list (or the first digest)
    hin2,       \* the second list (or the second digest)
    sin,        \* its string argument
    hout,       \* the digest it returned
    sout,       \* the string it returned
    pkind       \* how Hash::parse ended: "ok", "err", "panic"; "none" otherwise

VARIABLES
    mpc,        \* where mhash is: "idle", "nhash", "size", "mtime", "final", "done"
    filename,   \* its arguments
    mtime,
    size,
    mh,         \* the bytes its hasher h has been fed
    mout        \* the digest it returned

VARIABLES
    apc,        \* where from_api_hashes is: "idle", "group", "levels", "ok", "err"
    ah,         \* its argument: the list of records
    by_level,   \* the records grouped by level
    max_level,  \* the greatest level seen
    an,         \* the number of records grouped so far
    lvl,        \* the level the second loop is at (i)
    hash_levels, \* the levels built so far
    atree       \* the Hashes value returned: its levels; <<>> while there is none

VARIABLES
    bpc,        \* where find_borders is: "idle", "start", "prime", "scan",
                \* "ok", "err", "panic"
    bstream,    \* the bytes of the reader r
    checked,    \* whether the build checks arithmetic overflow
    window_size,
    zerobits,
    mask,
    bbuf,       \* buf, the first window_size bytes
    bread,      \* the number of bytes of r read so far
    rdc,        \* the rolling checksum: the bytes of its window
    bi,         \* i, the offset tested next
    borders,
    bfail,      \* the phase in which a read failed with an I/O error:
                \* "prime", "scan", or "none"
    bshort      \* whether a read returned fewer bytes than buf was missing

VARIABLES
    state,      \* LogInFlow.state
    authz_code, \* LogInFlow.authz_code
    fpc,        \* the call of the flow in progress: "idle", "waiting"
                \* (wait_for_redirect), "exchanging" (the token request is out)
    fcall,      \* the call made last: "none", "supply", "wait", "exchange"
    fres,       \* how the call made last ended; "none" while it runs
    upc,        \* where authorize_user is: "none" (the flow is used directly),
                \* "display", "wait", "on_code", "exchange", "ok", "err"
    on_code,    \* whether handler.on_received_code was called
    spc,        \* the redirect server: "idle", "serving", "draining", "returned"
    sdch,       \* the number of messages in the shutdown channel
    rch,        \* the messages in the result channel
    rpc,        \* per callback request, where its handler is: "none" (not
                \* arrived), "shutdown" (at shutdown.send), "result" (before
                \* result.send), "done"
    rquery,     \* per callback request, the query of its URI
    sabort,     \* whether the abort predicate has returned true
    sres        \* what start_and_wait_for_code returned (an Option)

VARIABLES
    cred,          \* Authorizer.cred
    current_token, \* Authorizer.current_token: <<>>, or the token and the
                   \* Instant it is counted from
    now,           \* the clock
    tpc,           \* the call of token: "idle", "refreshing" (the request is
                   \* out), "panic"
    treq,          \* the refresh request made last: its refresh_token and the
                   \* Instant taken at its start
    tres,          \* what the call of token made last returned, and when
    overflow       \* what this build does when expires_in - 30 overflows:
                   \* "panic" or "wrap"

hashVars == <<hcall, hin, hin2, sin, hout, sout, pkind>>

chashVars == <<cpc, stream, full, rpos, buf, nread, l0, hashes, rfail>>

mhashVars == <<mpc, filename, mtime, size, mh, mout>>

apiVars == <<apc, ah, by_level, max_level, an, lvl, hash_levels, atree>>

bordersVars ==
    <<bpc, bstream, checked, window_size, zerobits, mask, bbuf, bread, rdc, bi,
      borders, bfail, bshort>>

logInVars ==
    <<state, authz_code, fpc, fcall, fres, upc, on_code, spc, sdch, rch, rpc,
      rquery, sabort, sres>>

authVars == <<cred, current_token, now, tpc, treq, tres, overflow>>

vars ==
    <<hashVars, chashVars, mhashVars, apiVars, bordersVars, logInVars, authVars>>

\* What a digest operation leaves alone, and what chash leaves alone.
notHashVars == <<chashVars, mhashVars, apiVars, bordersVars, logInVars, authVars>>

notChashVars == <<hashVars, mhashVars, apiVars, bordersVars, logInVars, authVars>>

notMhashVars == <<hashVars, chashVars, apiVars, bordersVars, logInVars, authVars>>

notApiVars == <<hashVars, chashVars, mhashVars, bordersVars, logInVars, authVars>>

notBordersVars == <<hashVars, chashVars, mhashVars, apiVars, logInVars, authVars>>

notLogInVars ==
    <<hashVars, chashVars, mhashVars, apiVars, bordersVars, authVars>>

notAuthVars ==
    <<hashVars, chashVars, mhashVars, apiVars, bordersVars, logInVars>>

InitHash ==
    /\ hcall = "none"
    /\ hin = <<>>
    /\ hin2 = <<>>
    /\ sin = <<>>
    /\ hout = HashNew
    /\ sout = <<>>
    /\ pkind = "none"

\* add_hashes(a, b).
CallAddHashes ==
    /\ hcall = "none"
    /\ UNCHANGED notHashVars
    /\ \E a \in DigestSample, b \in DigestSample :
            /\ hcall' = "add_hashes"
            /\ hin' = <<a>>
            /\ hin2' = <<b>>
            /\ hout' = AddHashes(a, b)
            /\ sin' = <<>>
            /\ sout' = <<>>
            /\ pkind' = "none"

\* chash_dir(ms, cs).
CallChashDir ==
    /\ hcall = "none"
    /\ UNCHANGED notHashVars
    /\ \E ms \in ListsUpTo(MaxMembers), cs \in ListsUpTo(MaxMembers) :
            /\ Len(ms) + Len(cs) <= MaxMembers
            /\ hcall' = "chash_dir"
            /\ hin' = ms
            /\ hin2' = cs
            /\ hout' = ChashDir(ms, cs)
            /\ sin' = <<>>
            /\ sout' = <<>>
            /\ pkind' = "none"

\* mohash_dir(ms).
CallMohashDir ==
    /\ hcall = "none"
    /\ UNCHANGED notHashVars
    /\ \E ms \in ListsUpTo(MaxMembers) :
            /\ hcall' = "mohash_dir"
            /\ hin' = ms
            /\ hin2' = <<>>
            /\ hout' = MohashDir(ms)
            /\ sin' = <<>>
            /\ sout' = <<>>
            /\ pkind' = "none"

\* h.to_string().
CallToString ==
    /\ hcall = "none"
    /\ UNCHANGED notHashVars
    /\ \E h \in TextDigestSample :
            /\ hcall' = "to_string"
            /\ hin' = <<h>>
            /\ hin2' = <<>>
            /\ sout' = ToString(h)
            /\ hout' = HashNew
            /\ sin' = <<>>
            /\ pkind' = "none"

\* Hash::parse(s).
CallParse ==
    /\ hcall = "none"
    /\ UNCHANGED notHashVars
    /\ \E s \in StringSample :
            /\ hcall' = "parse"
            /\ sin' = s
            /\ hout' = Parse(s).h
            /\ pkind' = Parse(s).kind
            /\ hin' = <<>>
            /\ hin2' = <<>>
            /\ sout' = <<>>

\* The caller drops the result; the next call starts from nothing.
ReturnHash ==
    /\ hcall # "none"
    /\ UNCHANGED notHashVars
    /\ hcall' = "none"
    /\ hin' = <<>>
    /\ hin2' = <<>>
    /\ sin' = <<>>
    /\ hout' = HashNew
    /\ sout' = <<>>
    /\ pkind' = "none"

NextHash ==
    \/ ReturnHash
    \/ CallAddHashes
    \/ CallChashDir
    \/ CallMohashDir
    \/ CallToString
    \/ CallParse

\* chash is not running.
IdleChash ==
    /\ cpc = "idle"
    /\ stream = <<>>
    /\ full = TRUE
    /\ rpos = 0
    /\ buf = <<>>
    /\ nread = 0
    /\ l0 = <<>>
    /\ hashes = <<>>
    /\ rfail = FALSE

\* chash(r) is called: r holds a stream; streams of more than MaxStream bytes
\* come from a reader that fills the buffer.
CalledChash ==
    /\ cpc = "read"
    /\ \/ stream \in ShortStreams /\ full \in BOOLEAN
       \/ stream \in LongStreams /\ full = TRUE
    /\ rpos = 0
    /\ buf = <<>>
    /\ nread = 0
    /\ l0 = <<>>
    /\ hashes = <<>>
    /\ rfail = FALSE

\* One pass of the reading loop in which r.read returns n > 0 bytes.
ChashRead ==
    /\ cpc = "read"
    /\ rpos < Len(stream)
    /\ \E n \in 1..Min(BLOCK_SIZE, Len(stream) - rpos) :
          /\ full => n = Min(BLOCK_SIZE, Len(stream) - rpos)
          /\ nread' = n
          /\ buf' = BufferAfterRead(SubSeq(stream, rpos + 1, rpos + n))
          /\ l0' = Append(l0, LeafHash(buf'))
          /\ rpos' = rpos + n
    /\ UNCHANGED <<cpc, stream, full, hashes, rfail, notChashVars>>

\* r.read returns 0 at the end of the stream: the loop ends and the tree
\* starts with level 0.
ChashEof ==
    /\ cpc = "read"
    /\ rpos = Len(stream)
    /\ nread' = 0
    /\ buf' = BufferAfterRead(<<>>)
    /\ hashes' = <<l0>>
    /\ cpc' = "fold"
    /\ UNCHANGED <<stream, full, rpos, l0, rfail, notChashVars>>

\* r.read returns an error: the `?` returns it from chash.
ChashReadFails ==
    /\ cpc = "read"
    /\ rfail' = TRUE
    /\ cpc' = OnReadError(l0).cpc
    /\ hashes' = OnReadError(l0).hashes
    /\ UNCHANGED <<stream, full, rpos, buf, nread, l0, notChashVars>>

\* One pass of the folding loop: the last level is collapsed into a new one.
ChashCollapse ==
    /\ cpc = "fold"
    /\ ~OneLeft(hashes)
    /\ hashes' = Append(hashes, Collapse(hashes[Len(hashes)]))
    /\ UNCHANGED <<cpc, stream, full, rpos, buf, nread, l0, rfail, notChashVars>>

\* The folding loop ends and chash returns Ok(hashes).
ChashReturn ==
    /\ cpc = "fold"
    /\ OneLeft(hashes)
    /\ cpc' = "done"
    /\ UNCHANGED <<stream, full, rpos, buf, nread, l0, hashes, rfail, notChashVars>>

NextChash ==
    \/ ChashRead
    \/ ChashReadFails
    \/ ChashEof
    \/ ChashCollapse
    \/ ChashReturn

\* mhash is not running.
IdleMhash ==
    /\ mpc = "idle"
    /\ filename = <<>>
    /\ mtime = 0
    /\ size = <<>>
    /\ mh = <<>>
    /\ mout = HashNew

\* mhash(filename, mtime, size) is called: h is a new hasher.
CalledMhash ==
    /\ mpc = "nhash"
    /\ filename \in NameSample
    /\ mtime \in MtimeSample
    /\ size \in SizeSample
    /\ mh = <<>>
    /\ mout = HashNew

\* h.update(nh.0)
MhashNhash ==
    /\ mpc = "nhash"
    /\ mh' = mh \o Nhash(filename)
    /\ mpc' = "size"
    /\ UNCHANGED <<filename, mtime, size, mout, notMhashVars>>

\* if let Some(s) = size { h.update(s.to_le_bytes()) }
MhashSize ==
    /\ mpc = "size"
    /\ size # <<>>
    /\ mh' = mh \o ToLeBytes(size[1])
    /\ mpc' = "mtime"
    /\ UNCHANGED <<filename, mtime, size, mout, notMhashVars>>

\* size is None: nothing is fed to h.
MhashNoSize ==
    /\ mpc = "size"
    /\ size = <<>>
    /\ mpc' = "mtime"
    /\ UNCHANGED <<filename, mtime, size, mh, mout, notMhashVars>>

\* h.update(mtime.to_le_bytes())
MhashMtime ==
    /\ mpc = "mtime"
    /\ mh' = mh \o ToLeBytes(mtime)
    /\ mpc' = "final"
    /\ UNCHANGED <<filename, mtime, size, mout, notMhashVars>>

\* Hash::new_from_sha1(h.finalize())
MhashFinalize ==
    /\ mpc = "final"
    /\ mout' = Sha1(mh)
    /\ mpc' = "done"
    /\ UNCHANGED <<filename, mtime, size, mh, notMhashVars>>

NextMhash ==
    \/ MhashNhash
    \/ MhashSize
    \/ MhashNoSize
    \/ MhashMtime
    \/ MhashFinalize

\* from_api_hashes is not running.
IdleApi ==
    /\ apc = "idle"
    /\ ah = <<>>
    /\ by_level = <<>>
    /\ max_level = 0
    /\ an = 0
    /\ lvl = 0
    /\ hash_levels = <<>>
    /\ atree = <<>>

\* from_api_hashes(ah) is called: the map is empty and max_level is 0.
CalledApi ==
    /\ apc = "group"
    /\ ah \in RecordLists(MaxRecords)
    /\ by_level = <<>>
    /\ max_level = 0
    /\ an = 0
    /\ lvl = 0
    /\ hash_levels = <<>>
    /\ atree = <<>>

\* One pass of the loop over the records.
ApiGroup ==
    /\ apc = "group"
    /\ an < Len(ah)
    /\ by_level' = EntryPush(by_level, ah[an + 1])
    /\ max_level' = UsizeMax(max_level, ah[an + 1].level)
    /\ an' = an + 1
    /\ UNCHANGED <<apc, ah, lvl, hash_levels, atree, notApiVars>>

\* The loop over the records ends; the loop over the levels starts at 0.
ApiGrouped ==
    /\ apc = "group"
    /\ an = Len(ah)
    /\ apc' = "levels"
    /\ lvl' = 0
    /\ hash_levels' = <<>>
    /\ UNCHANGED <<ah, by_level, max_level, an, atree, notApiVars>>

\* One pass of the loop over the levels in which the level is pushed.
ApiLevel ==
    /\ apc = "levels"
    /\ lvl < max_level + 1
    /\ ~LevelStep(by_level, hash_levels, lvl).err
    /\ hash_levels' = LevelStep(by_level, hash_levels, lvl).hash_levels
    /\ by_level' = Remove(by_level, lvl)
    /\ lvl' = lvl + 1
    /\ UNCHANGED <<apc, ah, max_level, an, atree, notApiVars>>

\* A level has no record: Err is returned.
ApiMissing ==
    /\ apc = "levels"
    /\ lvl < max_level + 1
    /\ LevelStep(by_level, hash_levels, lvl).err
    /\ apc' = "err"
    /\ UNCHANGED <<ah, by_level, max_level, an, lvl, hash_levels, atree, notApiVars>>

\* Ok(Hashes { l: hash_levels })
ApiReturn ==
    /\ apc = "levels"
    /\ lvl = max_level + 1
    /\ atree' = hash_levels
    /\ apc' = "ok"
    /\ UNCHANGED <<ah, by_level, max_level, an, lvl, hash_levels, notApiVars>>

NextApi ==
    \/ ApiGroup
    \/ ApiGrouped
    \/ ApiLevel
    \/ ApiMissing
    \/ ApiReturn

\* find_borders is not running.
IdleBorders ==
    /\ bpc = "idle"
    /\ bstream = <<>>
    /\ checked = FALSE
    /\ window_size = 0
    /\ zerobits = 0
    /\ mask = <<0, 0>>
    /\ bbuf = <<>>
    /\ bread = 0
    /\ rdc = <<>>
    /\ bi = 0
    /\ borders = <<>>
    /\ bfail = "none"
    /\ bshort = FALSE

\* find_borders(r, window_size, zerobits) is called.
CalledBorders ==
    /\ bpc = "start"
    /\ bstream \in ScanStreams(MaxScanned)
    /\ checked \in BOOLEAN
    /\ window_size \in 1..MaxWindow
    /\ zerobits \in ZerobitsSample
    /\ mask = <<0, 0>>
    /\ bbuf = <<>>
    /\ bread = 0
    /\ rdc = <<>>
    /\ bi = 0
    /\ borders = <<>>
    /\ bfail = "none"
    /\ bshort = FALSE

\* The assertion fails or the shift overflows in a checked build: a panic.
BordersPanic ==
    /\ bpc = "start"
    /\ MaskOf(zerobits, checked).panic
    /\ bpc' = "panic"
    /\ UNCHANGED <<bstream, checked, window_size, zerobits, mask, bbuf, bread,
                   rdc, bi, borders, bfail, bshort, notBordersVars>>

\* mask is computed and buf is vec![0; window_size].
BordersMask ==
    /\ bpc = "start"
    /\ ~MaskOf(zerobits, checked).panic
    /\ mask' = MaskOf(zerobits, checked).mask
    /\ bbuf' = [k \in 1..window_size |-> 0]
    /\ bpc' = "prime"
    /\ UNCHANGED <<bstream, checked, window_size, zerobits, bread, rdc, bi,
                   borders, bfail, bshort, notBordersVars>>

\* read_exact: one read of r returns n > 0 bytes, as many as are missing in
\* buf or fewer.
BordersPrimeRead ==
    /\ bpc = "prime"
    /\ bread < window_size
    /\ bread < Len(bstream)
    /\ \E n \in 1..Min(window_size - bread, Len(bstream) - bread) :
          /\ bbuf' = Fill(bbuf, bread, SubSeq(bstream, bread + 1, bread + n))
          /\ bread' = bread + n
          /\ bshort' = (bshort \/ n < window_size - bread)
    /\ UNCHANGED <<bpc, bstream, checked, window_size, zerobits, mask, rdc, bi,
                   borders, bfail, notBordersVars>>

\* read_exact: the stream ends before buf is full; the `?` returns the error.
BordersPrimeEof ==
    /\ bpc = "prime"
    /\ bread < window_size
    /\ bread = Len(bstream)
    /\ bpc' = "err"
    /\ UNCHANGED <<bstream, checked, window_size, zerobits, mask, bbuf, bread,
                   rdc, bi, borders, bfail, bshort, notBordersVars>>

\* read_exact: a read fails with an I/O error; the `?` returns the error.
BordersPrimeFails ==
    /\ bpc = "prime"
    /\ bread < window_size
    /\ bfail' = "prime"
    /\ bpc' = "err"
    /\ UNCHANGED <<bstream, checked, window_size, zerobits, mask, bbuf, bread,
                   rdc, bi, borders, bshort, notBordersVars>>

\* buf is full: rdc = RollingDualCrc::new(&buf), i = window_size, no borders.
BordersPrimed ==
    /\ bpc = "prime"
    /\ bread = window_size
    /\ rdc' = bbuf
    /\ bi' = window_size
    /\ borders' = <<>>
    /\ bpc' = "scan"
    /\ UNCHANGED <<bstream, checked, window_size, zerobits, mask, bbuf, bread,
                   bfail, bshort, notBordersVars>>

\* One pass of the loop: read_u8 returns the next byte b.
BordersScan ==
    /\ bpc = "scan"
    /\ bread < Len(bstream)
    /\ borders' = Tested(borders, bi, rdc, mask)
    /\ rdc' = Roll(rdc, bstream[bread + 1])
    /\ bi' = NextOffset(bi)
    /\ bread' = bread + 1
    /\ UNCHANGED <<bpc, bstream, checked, window_size, zerobits, mask, bbuf,
                   bfail, bshort, notBordersVars>>

\* read_u8 returns Err at the end of the stream: the loop ends, Ok(borders).
BordersScanEnd ==
    /\ bpc = "scan"
    /\ bread = Len(bstream)
    /\ bpc' = "ok"
    /\ UNCHANGED <<bstream, checked, window_size, zerobits, mask, bbuf, bread,
                   rdc, bi, borders, bfail, bshort, notBordersVars>>

\* read_u8 returns Err for an I/O error: `while let Ok(b)` ends the loop just
\* the same, Ok(borders).
BordersScanFails ==
    /\ bpc = "scan"
    /\ bfail' = "scan"
    /\ bpc' = "ok"
    /\ UNCHANGED <<bstream, checked, window_size, zerobits, mask, bbuf, bread,
                   rdc, bi, borders, bshort, notBordersVars>>

NextBorders ==
    \/ BordersPanic
    \/ BordersMask
    \/ BordersPrimeRead
    \/ BordersPrimeEof
    \/ BordersPrimeFails
    \/ BordersPrimed
    \/ BordersScan
    \/ BordersScanEnd
    \/ BordersScanFails

\* A new LogInFlow (state Start, no code) and no redirect server; u tells
\* whether authorize_user drives the flow ("display") or a caller ("none").
FreshLogIn(u) ==
    /\ state = "Start"
    /\ authz_code = <<>>
    /\ fpc = "idle"
    /\ fcall = "none"
    /\ fres = "none"
    /\ upc = u
    /\ on_code = FALSE
    /\ spc = "idle"
    /\ sdch = 0
    /\ rch = <<>>
    /\ rpc = [h \in 1..MaxRequests |-> "none"]
    /\ rquery = [h \in 1..MaxRequests |-> <<>>]
    /\ sabort = FALSE
    /\ sres = <<>>

\* The number of callback requests that have reached the server.
Arrived == Cardinality({h \in 1..MaxRequests : rpc[h] # "none"})

\* What authorize_user does after a call of the flow: it goes on, or `?`
\* returns the error.
AfterCall(failed, next) ==
    IF upc = "none" THEN "none" ELSE IF failed THEN "err" ELSE next

\* supply_authorization_code(code)
Supply ==
    /\ fpc = "idle"
    /\ upc = "none"
    /\ \E code \in CodeSample : authz_code' = <<code>>
    /\ state' = "ReceivedCode"
    /\ fcall' = "supply"
    /\ fres' = "ok"
    /\ UNCHANGED <<fpc, upc, on_code, spc, sdch, rch, rpc, rquery, sabort, sres,
                   notLogInVars>>

\* wait_for_redirect is called: start_and_wait_for_code makes new channels
\* and starts the server.
WaitStart ==
    /\ fpc = "idle"
    /\ upc \in {"none", "wait"}
    /\ fpc' = "waiting"
    /\ fcall' = "wait"
    /\ fres' = "none"
    /\ spc' = "serving"
    /\ sdch' = 0
    /\ rch' = <<>>
    /\ rpc' = [h \in 1..MaxRequests |-> "none"]
    /\ rquery' = [h \in 1..MaxRequests |-> <<>>]
    /\ sabort' = FALSE
    /\ sres' = <<>>
    /\ UNCHANGED <<state, authz_code, upc, on_code, notLogInVars>>

\* A callback request is accepted and its handler starts.
RequestArrives ==
    /\ spc = "serving"
    /\ Arrived < MaxRequests
    /\ \E query \in QuerySample :
          /\ rquery' = [rquery EXCEPT ![Arrived + 1] = query]
          /\ rpc' = [rpc EXCEPT ![Arrived + 1] = "shutdown"]
    /\ UNCHANGED <<state, authz_code, fpc, fcall, fres, upc, on_code, spc, sdch,
                   rch, sabort, sres, notLogInVars>>

\* handle: shutdown.send(()).await returns once the channel has room.
HandlerSendShutdown ==
    /\ sdch < CHANNEL_CAPACITY
    /\ \E h \in 1..MaxRequests :
          /\ rpc[h] = "shutdown"
          /\ rpc' = [rpc EXCEPT ![h] = "result"]
    /\ sdch' = sdch + 1
    /\ UNCHANGED <<state, authz_code, fpc, fcall, fres, upc, on_code, spc, rch,
                   rquery, sabort, sres, notLogInVars>>

\* handle: result.send(..).await returns once the channel has room, and the
\* handler answers the request.
HandlerSendResult ==
    /\ Len(rch) < CHANNEL_CAPACITY
    /\ \E h \in 1..MaxRequests :
          /\ rpc[h] = "result"
          /\ rpc' = [rpc EXCEPT ![h] = "done"]
          /\ rch' = Append(rch, HandleResult(rquery[h]))
    /\ UNCHANGED <<state, authz_code, fpc, fcall, fres, upc, on_code, spc, sdch,
                   rquery, sabort, sres, notLogInVars>>

\* sdr.recv() takes the message of a handler: the graceful shutdown starts.
ServerRecvShutdown ==
    /\ spc = "serving"
    /\ sdch > 0
    /\ sdch' = sdch - 1
    /\ spc' = "draining"
    /\ UNCHANGED <<state, authz_code, fpc, fcall, fres, upc, on_code, rch, rpc,
                   rquery, sabort, sres, notLogInVars>>

\* abort_wait_p() returns true: the graceful shutdown starts.
ServerAbort ==
    /\ spc = "serving"
    /\ sabort' = TRUE
    /\ spc' = "draining"
    /\ UNCHANGED <<state, authz_code, fpc, fcall, fres, upc, on_code, sdch, rch,
                   rpc, rquery, sres, notLogInVars>>

\* graceful.await returns once no handler is running; the function returns
\* what r.recv().now_or_never() gives.
ServerReturn ==
    /\ spc = "draining"
    /\ \A h \in 1..MaxRequests : rpc[h] \in {"none", "done"}
    /\ sres' = <<NowOrNever(rch)>>
    /\ spc' = "returned"
    /\ UNCHANGED <<state, authz_code, fpc, fcall, fres, upc, on_code, sdch, rch,
                   rpc, rquery, sabort, notLogInVars>>

\* wait_for_redirect returns: the code is stored, or the state is Error.
WaitEnd ==
    /\ fpc = "waiting"
    /\ spc = "returned"
    /\ state' = WaitState(state, sres[1])
    /\ authz_code' = (IF sres[1].ok THEN <<sres[1].code>> ELSE authz_code)
    /\ fres' = (IF sres[1].ok THEN "ok"
                ELSE "Received error from redirect catching server")
    /\ fpc' = "idle"
    /\ upc' = AfterCall(~sres[1].ok, "on_code")
    /\ spc' = "idle"
    /\ UNCHANGED <<fcall, on_code, sdch, rch, rpc, rquery, sabort, sres,
                   notLogInVars>>

\* exchange_code returns at one of its two checks.
ExchangeRejected ==
    /\ fpc = "idle"
    /\ upc \in {"none", "exchange"}
    /\ ExchangeCheck(state, authz_code) # "go"
    /\ fcall' = "exchange"
    /\ fres' = ExchangeCheck(state, authz_code)
    /\ upc' = AfterCall(TRUE, "err")
    /\ UNCHANGED <<state, authz_code, fpc, on_code, spc, sdch, rch, rpc, rquery,
                   sabort, sres, notLogInVars>>

\* exchange_code passes its checks and the request cannot be built.
ExchangeBuildFails ==
    /\ fpc = "idle"
    /\ upc \in {"none", "exchange"}
    /\ ExchangeCheck(state, authz_code) = "go"
    /\ state' = "ExchangingCode"
    /\ fcall' = "exchange"
    /\ fres' = "Couldn't build token exchange request."
    /\ upc' = AfterCall(TRUE, "err")
    /\ UNCHANGED <<authz_code, fpc, on_code, spc, sdch, rch, rpc, rquery, sabort,
                   sres, notLogInVars>>

\* exchange_code passes its checks and sends the token request.
ExchangeStart ==
    /\ fpc = "idle"
    /\ upc \in {"none", "exchange"}
    /\ ExchangeCheck(state, authz_code) = "go"
    /\ state' = "ExchangingCode"
    /\ fpc' = "exchanging"
    /\ fcall' = "exchange"
    /\ fres' = "none"
    /\ UNCHANGED <<authz_code, upc, on_code, spc, sdch, rch, rpc, rquery, sabort,
                   sres, notLogInVars>>

\* The token request ends: a transport error, a body that is not UTF-8 or does
\* not parse as credentials, or credentials.
ExchangeEnd ==
    /\ fpc = "exchanging"
    /\ \E outcome \in {"transport error", "bad body", "credentials"} :
          /\ state' = ExchangeState(outcome)
          /\ fres' = outcome
          /\ upc' = AfterCall(outcome # "credentials", "ok")
    /\ fpc' = "idle"
    /\ UNCHANGED <<authz_code, fcall, on_code, spc, sdch, rch, rpc, rquery,
                   sabort, sres, notLogInVars>>

\* authorize_user: handler.display_authorization_url(auth_url).await?
UserDisplay ==
    /\ upc = "display"
    /\ \E shown \in BOOLEAN : upc' = (IF shown THEN "wait" ELSE "err")
    /\ UNCHANGED <<state, authz_code, fpc, fcall, fres, on_code, spc, sdch, rch,
                   rpc, rquery, sabort, sres, notLogInVars>>

\* authorize_user: handler.on_received_code().await
UserOnCode ==
    /\ upc = "on_code"
    /\ on_code' = TRUE
    /\ upc' = "exchange"
    /\ UNCHANGED <<state, authz_code, fpc, fcall, fres, spc, sdch, rch, rpc,
                   rquery, sabort, sres, notLogInVars>>

NextLogIn ==
    \/ Supply
    \/ WaitStart
    \/ RequestArrives
    \/ HandlerSendShutdown
    \/ HandlerSendResult
    \/ ServerRecvShutdown
    \/ ServerAbort
    \/ ServerReturn
    \/ WaitEnd
    \/ ExchangeRejected
    \/ ExchangeBuildFails
    \/ ExchangeStart
    \/ ExchangeEnd
    \/ UserDisplay
    \/ UserOnCode

\* Authorizer::new: credentials of the set creds, no token; the build treats
\* an overflow in one of the ways of hows.
FreshAuthorizer(creds, hows) ==
    /\ cred \in creds
    /\ current_token = <<>>
    /\ now = 0
    /\ tpc = "idle"
    /\ treq = <<>>
    /\ tres = [kind |-> "none", token |-> "", at |-> 0]
    /\ overflow \in hows

IdleAuthorizer ==
    FreshAuthorizer({[refresh_token |-> "r1", expires_in |-> 30,
                      access_token |-> "a1"]}, {"panic"})

\* token: a token is cached and has not expired; it is returned.
TokenCached ==
    /\ tpc = "idle"
    /\ current_token # <<>>
    /\ cred.expires_in >= REFRESH_MARGIN \/ overflow = "wrap"
    /\ NotExpired(now - current_token[1].t, ExpiryLimit(cred.expires_in))
    /\ tres' = [kind |-> "cached", token |-> current_token[1].token, at |-> now]
    /\ UNCHANGED <<cred, current_token, now, tpc, treq, overflow, notAuthVars>>

\* token: a token is cached and the subtraction overflows in a build that
\* checks it.
TokenPanics ==
    /\ tpc = "idle"
    /\ current_token # <<>>
    /\ cred.expires_in < REFRESH_MARGIN
    /\ overflow = "panic"
    /\ tpc' = "panic"
    /\ UNCHANGED <<cred, current_token, now, treq, tres, overflow, notAuthVars>>

\* token: no token is cached, or it has expired; refresh takes the time and
\* sends the request.
RefreshStart ==
    /\ tpc = "idle"
    /\ \/ current_token = <<>>
       \/ /\ current_token # <<>>
          /\ cred.expires_in >= REFRESH_MARGIN \/ overflow = "wrap"
          /\ ~NotExpired(now - current_token[1].t, ExpiryLimit(cred.expires_in))
    /\ tpc' = "refreshing"
    /\ treq' = <<[refresh_token |-> cred.refresh_token, t |-> now]>>
    /\ UNCHANGED <<cred, current_token, now, tres, overflow, notAuthVars>>

\* refresh ends: the request failed, the body does not parse, or it holds
\* credentials; token returns.
RefreshEnd ==
    /\ tpc = "refreshing"
    /\ \E outcome \in {"request error", "bad body", "credentials"},
          body \in CredSample :
          /\ cred' = AfterRefresh(outcome, cred, body)
          /\ current_token' =
                AfterRefresh(outcome, current_token,
                             <<[token |-> body.access_token, t |-> treq[1].t]>>)
          /\ tres' = IF outcome = "credentials"
                     THEN [kind |-> "refreshed", token |-> body.access_token,
                           at |-> now]
                     ELSE [kind |-> "err", token |-> outcome, at |-> now]
    /\ tpc' = "idle"
    /\ UNCHANGED <<now, treq, overflow, notAuthVars>>

\* A second passes.
Tick ==
    /\ now < MaxClock
    /\ now' = now + 1
    /\ UNCHANGED <<cred, current_token, tpc, treq, tres, overflow, notAuthVars>>

NextAuthorizer ==
    \/ TokenCached
    \/ TokenPanics
    \/ RefreshStart
    \/ RefreshEnd
    \/ Tick

Init ==
    InitHash /\ IdleChash /\ IdleMhash /\ IdleApi /\ IdleBorders
        /\ FreshLogIn("none") /\ IdleAuthorizer

Next == NextHash

\* The digest operations, called in any order on any of the sampled inputs.
Spec == Init /\ [][Next]_vars

\* One call of chash on any of the sampled streams.
InitChash ==
    CalledChash /\ InitHash /\ IdleMhash /\ IdleApi /\ IdleBorders
        /\ FreshLogIn("none") /\ IdleAuthorizer

SpecChash == InitChash /\ [][NextChash]_vars

\* One call of mhash on any of the sampled arguments.
InitMhash ==
    CalledMhash /\ InitHash /\ IdleChash /\ IdleApi /\ IdleBorders
        /\ FreshLogIn("none") /\ IdleAuthorizer

SpecMhash == InitMhash /\ [][NextMhash]_vars

\* One call of either function that returns a tree: chash on a stream or
\* from_api_hashes on a list of records.
InitTrees ==
    /\ InitHash
    /\ IdleMhash
    /\ IdleBorders
    /\ FreshLogIn("none") /\ IdleAuthorizer
    /\ \/ CalledChash /\ IdleApi
       \/ IdleChash /\ CalledApi

NextTrees == NextChash \/ NextApi

SpecTrees == InitTrees /\ [][NextTrees]_vars

\* from_api_hashes is called on the records of the tree chash has returned,
\* in some order.
CallApiOnTree ==
    /\ cpc = "done"
    /\ apc = "idle"
    /\ ah' \in Orders(TreeRecords(hashes))
    /\ apc' = "group"
    /\ UNCHANGED <<by_level, max_level, an, lvl, hash_levels, atree, notApiVars>>

\* A call of chash, and then a call of from_api_hashes on the records of the
\* tree it returned.
InitRoundTrip ==
    /\ CalledChash
    /\ Len(stream) <= MaxStream
    /\ InitHash /\ IdleMhash /\ IdleApi /\ IdleBorders
    /\ FreshLogIn("none") /\ IdleAuthorizer

NextRoundTrip == NextChash \/ CallApiOnTree \/ NextApi

SpecRoundTrip == InitRoundTrip /\ [][NextRoundTrip]_vars

\* One call of find_borders on any of the sampled streams and arguments.
InitBorders ==
    CalledBorders /\ InitHash /\ IdleChash /\ IdleMhash /\ IdleApi
        /\ FreshLogIn("none") /\ IdleAuthorizer

SpecBorders == InitBorders /\ [][NextBorders]_vars

\* A LogInFlow used directly, by any sequence of calls, or by authorize_user.
InitLogIn ==
    /\ InitHash /\ IdleChash /\ IdleMhash /\ IdleApi /\ IdleBorders
    /\ IdleAuthorizer
    /\ \E u \in {"none", "display"} : FreshLogIn(u)

SpecLogIn == InitLogIn /\ [][NextLogIn]_vars

\* A new Authorizer with any credentials, in either kind of build.
InitAuthorizer ==
    /\ InitHash /\ IdleChash /\ IdleMhash /\ IdleApi /\ IdleBorders
    /\ FreshLogIn("none")
    /\ FreshAuthorizer(CredSample, {"panic", "wrap"})

SpecAuthorizer == InitAuthorizer /\ [][NextAuthorizer]_vars

(***************************************************************************)
(* Vocabulary of the properties.                                           *)
(***************************************************************************)
\* A digest read as a big-endian unsigned integer v is kept in two parts,
\* <<v \div LowMod, v % LowMod>>: its first byte and the integer value of the
\* bytes after it (TLC's integers have 32 bits).
RECURSIVE Pow(_, _)
Pow(b, e) == IF e = 0 THEN 1 ELSE b * Pow(b, e - 1)

LowMod == Pow(U8, HASH_BYTES - 1)

RECURSIVE ValFrom(_, _, _)
ValFrom(h, i, acc) == IF i > Len(h) THEN acc ELSE ValFrom(h, i + 1, acc * U8 + h[i])

HashVal(h) == <<h[1], ValFrom(h, 2, 0)>>

\* v + w as an integer, in parts: the first part is not reduced.
ValPlus(v, w) == <<v[1] + w[1] + ((v[2] + w[2]) \div LowMod), (v[2] + w[2]) % LowMod>>

\* v mod 2^(8 HASH_BYTES), which is U8 * LowMod.
ValMod(v) == <<v[1] % U8, v[2]>>

\* The integer sum of the values of a list of digests, not reduced.
RECURSIVE ValSum(_, _)
ValSum(l, i) == IF i > Len(l) THEN <<0, 0>> ELSE ValPlus(HashVal(l[i]), ValSum(l, i + 1))

\* The rearrangements of a list.
Perms(l) ==
    LET n == Len(l)
        bij == {f \in [1..n -> 1..n] : \A i, j \in 1..n : f[i] = f[j] => i = j}
    IN  {[i \in 1..n |-> l[f[i]]] : f \in bij}

\* The results of combining the digests of a non-empty list, in its order,
\* under every way of putting the parentheses.
RECURSIVE GroupSums(_)
GroupSums(l) ==
    IF Len(l) = 1 THEN {l[1]}
    ELSE UNION {{AddHashes(x, y) : x \in GroupSums(SubSeq(l, 1, k)),
                                   y \in GroupSums(SubSeq(l, k + 1, Len(l)))} :
                k \in 1..(Len(l) - 1)}

\* The sixteen lowercase hexadecimal digits, by value.
LowerHexDigits == <<48, 49, 50, 51, 52, 53, 54, 55, 56, 57, 97, 98, 99, 100, 101, 102>>

IsLowerHex(c) == \E d \in 1..16 : LowerHexDigits[d] = c

IsHexDigit(c) == IsLowerHex(c) \/ (65 <= c /\ c <= 70)

(***************************************************************************)
(* Properties of the digest operations (specification Spec).               *)
(***************************************************************************)
\* C1: add_hashes(a, b), read as a big-endian unsigned integer, is
\* (a + b) mod 2^(8 HASH_BYTES): carries run from the last byte to the first
\* and the carry out of the first byte is discarded.
C1_AddHashesIsAdditionMod ==
    hcall = "add_hashes" =>
        HashVal(hout) = ValMod(ValPlus(HashVal(hin[1]), HashVal(hin2[1])))

\* A sum that overflows the digest, with a byte that wraps only because of
\* the carry it receives.
C1_Witness ==
    /\ hcall = "add_hashes"
    /\ ValPlus(HashVal(hin[1]), HashVal(hin2[1]))[1] >= U8
    /\ \E i \in 2..HASH_BYTES : hin[1][i] + hin2[1][i] = U8 - 1 /\ hout[i] = 0

\* C2: combining a list of digests, starting from the zero digest, gives the
\* same digest for every rearrangement of the list and every grouping.
C2_OrderAndGroupingFree ==
    hcall = "mohash_dir" =>
        \A p \in Perms(hin) : GroupSums(<<HashNew>> \o p) = {hout}

\* Three different digests whose sum carries.
C2_Witness ==
    /\ hcall = "mohash_dir"
    /\ Len(hin) = 3
    /\ Cardinality({hin[1], hin[2], hin[3]}) = 3
    /\ ValPlus(HashVal(hin[1]), HashVal(hin[2]))[1] >= U8
    /\ hout # HashNew

\* C3: chash_dir(ms, cs) is the sum of all of ms and all of cs modulo
\* 2^(8 HASH_BYTES), whatever the order of ms and of cs; mohash_dir(ms) is the
\* sum of ms alone: the member itself for one member, zero for none.
C3_DirFolds ==
    /\ hcall = "chash_dir" =>
          /\ HashVal(hout) = ValMod(ValPlus(ValSum(hin, 1), ValSum(hin2, 1)))
          /\ \A p \in Perms(hin), q \in Perms(hin2) : ChashDir(p, q) = hout
    /\ hcall = "mohash_dir" =>
          /\ HashVal(hout) = ValMod(ValSum(hin, 1))
          /\ Len(hin) = 1 => hout = hin[1]
          /\ Len(hin) = 0 => hout = HashNew

\* Members of both kinds, in an order that matters to a fold that is not
\* symmetric, and content digests that change the result.
C3_Witness ==
    /\ hcall = "chash_dir"
    /\ Len(hin) = 2 /\ hin[1] # hin[2]
    /\ Len(hin2) >= 1 /\ hin2[1] # HashNew
    /\ ValPlus(ValSum(hin, 1), ValSum(hin2, 1))[1] >= U8

\* C9: Hash::parse returns an error for every string whose length is not
\* 2 HASH_BYTES or that holds a character that is no hexadecimal digit.
C9_ParseRejectsMalformed ==
    (/\ hcall = "parse"
     /\ \/ Len(sin) # 2 * HASH_BYTES
        \/ \E p \in 1..Len(sin) : ~IsHexDigit(sin[p]))
    => pkind = "err"

\* C10: to_string(h) is 2 HASH_BYTES lowercase hexadecimal digits, two per
\* byte with the first byte first and the high digit first, and
\* parse(to_string(h)) = h; for a string s of 2 HASH_BYTES lowercase digits,
\* to_string(parse(s)) = s.
C10_TextRoundTrip ==
    /\ hcall = "to_string" =>
          /\ Len(sout) = 2 * HASH_BYTES
          /\ \A i \in 1..HASH_BYTES :
                /\ sout[2 * i - 1] = LowerHexDigits[(hin[1][i] \div 16) + 1]
                /\ sout[2 * i] = LowerHexDigits[(hin[1][i] % 16) + 1]
          /\ Parse(sout) = [kind |-> "ok", h |-> hin[1]]
    /\ (/\ hcall = "parse"
        /\ Len(sin) = 2 * HASH_BYTES
        /\ \A p \in 1..Len(sin) : IsLowerHex(sin[p]))
       => (pkind = "ok" /\ ToString(hout) = sin)

\* A digest with a byte whose two digits differ and mix a figure and a letter.
C10_Witness ==
    /\ hcall = "to_string"
    /\ \E i \in 1..HASH_BYTES : hin[1][i] = 154
    /\ \E i \in 1..HASH_BYTES : hin[1][i] = 1

(***************************************************************************)
(* Properties of chash (specification SpecChash).                          *)
(***************************************************************************)
\* The bytes the last read returned.
LastChunk == SubSeq(stream, rpos - nread + 1, rpos)

\* n zero bytes.
Zeroes(n) == [i \in 1..n |-> 0]

LastOf(l) == l[Len(l)]

\* What position i (from 0) of a level adds to its group: nothing for a zero
\* digest, else the value of digest(level[i] bytes ++ single byte (i mod 256)).
Contribution(level, i) ==
    IF \A j \in 1..HASH_BYTES : level[i + 1][j] = 0 THEN <<0, 0>>
    ELSE HashVal(Sha1(level[i + 1] \o <<i % 256>>))

\* The integer sum of the contributions of the positions lo .. hi - 1.
RECURSIVE RangeSum(_, _, _)
RangeSum(level, lo, hi) ==
    IF hi <= lo THEN <<0, 0>>
    ELSE IF hi = lo + 1 THEN Contribution(level, lo)
    ELSE ValPlus(RangeSum(level, lo, (lo + hi) \div 2),
                 RangeSum(level, (lo + hi) \div 2, hi))

\* The tree of a stream cut into consecutive blocks of BLOCK_SIZE bytes, the
\* last one shorter if the length is no multiple of BLOCK_SIZE.
BlockCount(str) == (Len(str) + BLOCK_SIZE - 1) \div BLOCK_SIZE

BlockLevel(str) ==
    [b \in 1..BlockCount(str) |->
        LeafHash(BufferAfterRead(SubSeq(str, (b - 1) * BLOCK_SIZE + 1,
                                        Min(b * BLOCK_SIZE, Len(str)))))]

RECURSIVE FoldTree(_)
FoldTree(l) == IF OneLeft(l) THEN l ELSE FoldTree(Append(l, Collapse(LastOf(l))))

BlockTree(str) == FoldTree(<<BlockLevel(str)>>)

\* The shape of a returned tree.
TreeShape ==
    /\ Len(hashes) >= 1
    /\ hashes[1] = l0
    /\ Len(LastOf(hashes)) = 1
    /\ \A L \in 1..(Len(hashes) - 1) : Len(hashes[L]) # 1
    /\ Len(stream) = 0 => hashes = <<<<>>, <<HashNew>>>>

\* What is left to do: the bytes to read while reading; while folding the
\* number of digests of the last level, an empty level counting as two (it
\* folds into one digest).
Remaining ==
    IF cpc = "read" THEN Len(stream) - rpos
    ELSE IF cpc = "fold"
         THEN (IF Len(LastOf(hashes)) = 0 THEN 2 ELSE Len(LastOf(hashes)))
    ELSE 0

\* A step of chash goes on to the next phase, or stays in its phase with less
\* left to do.
Advances ==
    \/ cpc = "read" /\ cpc' = "read" /\ Remaining' < Remaining
    \/ cpc = "read" /\ cpc' = "fold"
    \/ cpc = "read" /\ cpc' = "err"
    \/ cpc = "fold" /\ cpc' = "fold" /\ Remaining' < Remaining
    \/ cpc = "fold" /\ cpc' = "done"

\* The guards of the steps of chash: a read that returns bytes or the end of
\* the stream, a fold or the return.
CanStep ==
    \/ cpc = "read" /\ (rpos < Len(stream) \/ rpos = Len(stream))
    \/ cpc = "fold" /\ Len(hashes) >= 1 /\ (~OneLeft(hashes) \/ OneLeft(hashes))

\* C4: on every stream chash terminates (until it has returned it can take a
\* step, and every step advances), and the tree it returns ends with a level
\* of exactly one digest, every level before it holding a number of digests
\* other than one; for the empty stream level 0 is empty and one fold gives
\* the single zero digest.
C4_ChashTerminatesWithOneDigest ==
    /\ [](cpc = "done" => TreeShape)
    /\ [](cpc \notin {"done", "err"} => CanStep)
    /\ [][Advances]_vars

\* A tree of three levels: level 1 holds two digests.
C4_Witness ==
    /\ cpc = "done"
    /\ Len(hashes) = 3
    /\ Len(hashes[2]) = 2

\* C5: a level of n >= 1 digests collapses into ceil(n / 256) digests, digest
\* k being the sum modulo 2^(8 HASH_BYTES) of the contributions of the
\* positions 256 k .. min(256 k + 255, n - 1), whether the digest at a
\* multiple of 256 is zero or not.
C5_CollapseGroups ==
    \A L \in 2..Len(hashes) :
        LET prev == hashes[L - 1]
            cur  == hashes[L]
            n    == Len(prev)
        IN  n >= 1 =>
              /\ Len(cur) = (n + 255) \div 256
              /\ \A k \in 0..(Len(cur) - 1) :
                    HashVal(cur[k + 1]) =
                        ValMod(RangeSum(prev, 256 * k, Min(256 * k + 256, n)))

\* Three groups, the second of which starts with a zero digest and has
\* digests that are not zero.
C5_Witness ==
    /\ cpc = "done"
    /\ Len(hashes[1]) = 513
    /\ Len(hashes[2]) = 3
    /\ IsZeroHash(hashes[1][257])
    /\ ~IsZeroHash(hashes[1][259])
    /\ ~IsZeroHash(hashes[2][2])

\* C6: a chunk of zero bytes gets the zero digest at level 0, a chunk with a
\* non-zero byte the digest of its buffer, which is not zero; and in a fold a
\* zero digest adds nothing: putting a digest d in its place, at position i,
\* adds digest(d ++ single byte (i mod 256)) to the group of i and changes
\* nothing else of the next level.
C6_ZeroBlocksSkipped ==
    /\ (cpc = "read" /\ nread > 0) =>
          IF \A p \in 1..nread : LastChunk[p] = 0
          THEN LastOf(l0) = HashNew
          ELSE LastOf(l0) = Sha1(buf) /\ LastOf(l0) # HashNew
    /\ cpc = "done" =>
          \A L \in 2..Len(hashes) :
              LET prev == hashes[L - 1]
                  cur  == hashes[L]
              IN  \A i \in 0..(Len(prev) - 1) :
                      prev[i + 1] = HashNew =>
                          LET d    == Sha1(<<i % 256, L>>)
                              next == Collapse([prev EXCEPT ![i + 1] = d])
                          IN  /\ Len(next) = Len(cur)
                              /\ \A g \in 1..Len(cur) :
                                    next[g] =
                                        IF g = (i \div 256) + 1
                                        THEN AddHashes(cur[g], Sha1(d \o <<i % 256>>))
                                        ELSE cur[g]

\* Reads that return less than a block: a zero chunk between two chunks that
\* are not zero, and the tree folded.
C6_Witness ==
    /\ cpc = "done"
    /\ ~full
    /\ Len(l0) >= 3
    /\ ~IsZeroHash(l0[1]) /\ IsZeroHash(l0[2]) /\ ~IsZeroHash(l0[3])
    /\ ~IsZeroHash(TopHash(hashes))

\* C7 as stated: the digest of a chunk of less than BLOCK_SIZE bytes with a
\* non-zero byte is the digest of exactly the bytes read.
C7_ShortChunkNotPadded ==
    (/\ cpc = "read"
     /\ 0 < nread /\ nread < BLOCK_SIZE
     /\ \E p \in 1..nread : LastChunk[p] # 0)
    => LastOf(l0) = Sha1(LastChunk)

\* C7, amended: the digest of a chunk of n < BLOCK_SIZE bytes with a non-zero
\* byte is the digest of BLOCK_SIZE bytes, the n bytes read followed by
\* BLOCK_SIZE - n zero bytes.
C7_ShortChunkZeroPadded ==
    (/\ cpc = "read"
     /\ 0 < nread /\ nread < BLOCK_SIZE
     /\ \E p \in 1..nread : LastChunk[p] # 0)
    => LastOf(l0) = Sha1(LastChunk \o Zeroes(BLOCK_SIZE - nread))

\* The short last chunk of a stream of more than one block, read by a reader
\* that fills the buffer.
C7_Witness ==
    /\ cpc = "read"
    /\ full
    /\ rpos = Len(stream)
    /\ Len(l0) >= 2
    /\ 0 < nread /\ nread < BLOCK_SIZE
    /\ \E p \in 1..nread : LastChunk[p] # 0

\* C8: the tree chash returns is that of the stream's consecutive blocks of
\* BLOCK_SIZE bytes, ceil(length / BLOCK_SIZE) digests at level 0, however the
\* reader delivers the bytes.
C8_ReadChunkingFree ==
    cpc = "done" =>
        /\ Len(hashes[1]) = BlockCount(stream)
        /\ hashes = BlockTree(stream)


\* C19: if a read of the stream fails while chash builds level 0, chash
\* returns the error: it never goes on to fold, and no Hashes value is made
\* of the blocks read before the failure.
C19_ReadErrorNoTree ==
    rfail => (cpc = "err" /\ hashes = <<>>)

\* A read has failed after two blocks, one of them not zero, were read.
C19_Witness ==
    /\ rfail
    /\ cpc = "err"
    /\ Len(l0) = 2
    /\ \E b \in 1..2 : l0[b] # HashNew

(***************************************************************************)
(* Properties of mhash (specification SpecMhash).                          *)
(***************************************************************************)
\* b is the little-endian form, INT_BYTES long, of the unsigned number v
\* (v below 2^31: the bytes from the fifth on are 0).
IsLeUnsigned(b, v) ==
    /\ Len(b) = INT_BYTES
    /\ \A i \in 5..INT_BYTES : b[i] = 0
    /\ b[4] < U8 \div 2
    /\ b[1] + U8 * b[2] + U8 * U8 * b[3] + U8 * U8 * U8 * b[4] = v

\* b is the little-endian two's-complement form, INT_BYTES long, of v
\* (-2^31 <= v < 2^31: the bytes from the fifth on repeat the sign).
IsLeSigned(b, v) ==
    LET neg == b[4] >= U8 \div 2
    IN  /\ Len(b) = INT_BYTES
        /\ \A i \in 5..INT_BYTES : b[i] = (IF neg THEN U8 - 1 ELSE 0)
        /\ b[1] + U8 * b[2] + U8 * U8 * b[3]
             + U8 * U8 * U8 * (b[4] - (IF neg THEN U8 ELSE 0)) = v

\* C11: mhash(name, mtime, size) digests the HASH_BYTES bytes of nhash(name),
\* then, only when size is present, size as INT_BYTES little-endian unsigned
\* bytes, then mtime as INT_BYTES little-endian two's-complement bytes; the
\* preimage with a size is INT_BYTES longer than the one without, so the two
\* variants never digest the same bytes.
C11_MhashPreimage ==
    mpc = "done" =>
        LET sizeLen == IF size = <<>> THEN 0 ELSE INT_BYTES
            otherLen == IF size = <<>> THEN INT_BYTES ELSE 0
        IN  /\ Len(mh) = HASH_BYTES + sizeLen + INT_BYTES
            /\ SubSeq(mh, 1, HASH_BYTES) = Sha1(FileName(filename))
            /\ size # <<>> =>
                  IsLeUnsigned(SubSeq(mh, HASH_BYTES + 1, HASH_BYTES + INT_BYTES),
                               size[1])
            /\ IsLeSigned(SubSeq(mh, HASH_BYTES + sizeLen + 1,
                                 HASH_BYTES + sizeLen + INT_BYTES), mtime)
            /\ mout = Sha1(mh)
            /\ Len(mh) # HASH_BYTES + otherLen + INT_BYTES

\* mhash has returned for a negative mtime and a size of more than one byte.
C11_Witness ==
    /\ mpc = "done"
    /\ mtime = -256
    /\ size = <<256>>
    /\ Len(mh) = HASH_BYTES + 2 * INT_BYTES

(***************************************************************************)
(* Properties of the returned trees (specification SpecTrees).             *)
(***************************************************************************)
\* The levels that have a record, and the greatest of them (0 for no record).
LevelsOf(records) == {records[j].level : j \in 1..Len(records)}

GreatestLevel(records) ==
    IF records = <<>> THEN 0
    ELSE CHOOSE m \in LevelsOf(records) : \A l \in LevelsOf(records) : l <= m

\* The records of level L, in the order of the list.
RecordsAt(records, L) ==
    LET AtL(r) == r.level = L IN SelectSeq(records, AtL)

\* No two records of the list have the same level and block.
DistinctPlaces(records) ==
    \A i, j \in 1..Len(records) :
        (i # j) => <<records[i].level, records[i].block>>
                     # <<records[j].level, records[j].block>>

\* The digests of the records of level L taken as a set, the j-th being the
\* one of the record with j - 1 records of a smaller block number.
LevelOfSet(records, L) ==
    LET S == {records[j] : j \in {k \in 1..Len(records) : records[k].level = L}}
    IN  [j \in 1..Cardinality(S) |->
            (CHOOSE r \in S : Cardinality({x \in S : x.block < r.block}) = j - 1).hash]

\* C12: from_api_hashes returns an error, and no tree, exactly when some
\* level in 0..max_level has no record (max_level being the greatest level of
\* the records); it succeeds when every such level has a record.
C12_MissingLevelIsError ==
    (apc \in {"ok", "err"}) =>
        /\ (apc = "err") <=>
              (\E L \in 0..GreatestLevel(ah) : L \notin LevelsOf(ah))
        /\ (apc = "err") => atree = <<>>
        /\ (apc = "ok") => atree # <<>>

\* The records have levels 0 and 2 and none has level 1: an error.
C12_Witness ==
    /\ apc = "err"
    /\ LevelsOf(ah) = {0, 2}
    /\ atree = <<>>

\* C13: a successful from_api_hashes returns max_level + 1 levels; level L
\* holds one digest per record of level L, in ascending order of the block
\* numbers; for records of pairwise distinct (level, block) it is the level
\* given by the set of the records, whatever the order of the list.
C13_LevelsSortedByBlock ==
    (apc = "ok") =>
        /\ Len(atree) = GreatestLevel(ah) + 1
        /\ \A L \in 0..GreatestLevel(ah) :
              LET recs == RecordsAt(ah, L)
              IN  /\ Len(atree[L + 1]) = Len(recs)
                  /\ \E q \in Perms(recs) :
                        /\ \A j \in 1..(Len(q) - 1) : q[j].block <= q[j + 1].block
                        /\ atree[L + 1] = [j \in 1..Len(q) |-> q[j].hash]
                  /\ DistinctPlaces(ah) => atree[L + 1] = LevelOfSet(ah, L)

\* A tree of two levels from a list whose first two records are of level 0,
\* the greater block first, with different digests.
C13_Witness ==
    /\ apc = "ok"
    /\ Len(atree) = 2
    /\ Len(ah) = 3
    /\ ah[1].level = 0 /\ ah[2].level = 0
    /\ ah[1].block > ah[2].block
    /\ ah[1].hash # ah[2].hash
    /\ atree[1] = <<ah[2].hash, ah[1].hash>>

\* As C14 is stated: in every tree that chash or from_api_hashes returns the
\* last level holds exactly one digest, which top_hash returns.
C14_LastLevelOneDigest ==
    /\ (cpc = "done") =>
          Len(LastOf(hashes)) = 1 /\ TopHash(hashes) = LastOf(hashes)[1]
    /\ (apc = "ok") =>
          Len(LastOf(atree)) = 1 /\ TopHash(atree) = LastOf(atree)[1]

\* C14: in every tree chash returns the last level holds exactly one digest,
\* which top_hash returns; in a tree from_api_hashes returns the last level
\* holds one digest per record of the greatest level, at least one, and
\* top_hash returns the first of them, that of a record of the least block.
C14_TopHashFirstOfLastLevel ==
    /\ (cpc = "done") =>
          Len(LastOf(hashes)) = 1 /\ TopHash(hashes) = LastOf(hashes)[1]
    /\ (apc = "ok") =>
          LET top == RecordsAt(ah, GreatestLevel(ah))
          IN  /\ Len(LastOf(atree)) = Len(top)
              /\ Len(top) >= 1
              /\ TopHash(atree) = LastOf(atree)[1]
              /\ \E j \in 1..Len(top) :
                    /\ top[j].hash = TopHash(atree)
                    /\ \A k \in 1..Len(top) : top[j].block <= top[k].block

\* from_api_hashes has returned a tree of two levels whose last level holds
\* two different digests.
C14_Witness ==
    /\ apc = "ok"
    /\ Len(atree) = 2
    /\ Len(LastOf(atree)) = 2
    /\ LastOf(atree)[1] # LastOf(atree)[2]
    /\ atree[1][1] # LastOf(atree)[1]

\* C28: top_hash never indexes out of bounds on a returned tree: a tree that
\* chash or from_api_hashes returns has at least one level and its last level
\* is not empty; from_api_hashes returns an error for the empty list.
C28_TopHashInBounds ==
    /\ (cpc = "done") => (Len(hashes) >= 1 /\ Len(LastOf(hashes)) >= 1)
    /\ (apc = "ok") => (Len(atree) >= 1 /\ Len(LastOf(atree)) >= 1)
    /\ (apc \in {"ok", "err"} /\ ah = <<>>) => (apc = "err" /\ atree = <<>>)

\* from_api_hashes has ended for the empty list.
C28_Witness ==
    /\ apc = "err"
    /\ ah = <<>>
    /\ lvl = 0

(***************************************************************************)
(* Properties of the round trip (specification SpecRoundTrip).             *)
(***************************************************************************)
\* C27: for a stream that is not empty, from_api_hashes on the records
\* (level, index in the level, digest) of the tree chash built, in any order,
\* returns a tree with the same levels and the same top_hash.
C27_RoundTrip ==
    (cpc = "done" /\ stream # <<>> /\ apc \in {"ok", "err"}) =>
        /\ apc = "ok"
        /\ atree = hashes
        /\ TopHash(atree) = TopHash(hashes)

\* The records of a tree of two levels, level 0 of three digests or more, did
\* not arrive in the order of the tree.
C27_Witness ==
    /\ cpc = "done"
    /\ apc = "ok"
    /\ Len(hashes) = 2
    /\ Len(hashes[1]) >= 3
    /\ ah # TreeRecords(hashes)
    /\ ah[1].level = 0 /\ ah[1].block = 2
    /\ atree = hashes

(***************************************************************************)
(* Properties of find_borders (specification SpecBorders).                 *)
(***************************************************************************)
\* The window_size bytes before offset o: the window when o is tested.
WindowAt(str, w, o) == SubSeq(str, o - w + 1, o)

\* The z low bits of the u32 fp are all zero.
LowBitsZero(fp, z) ==
    IF 2 * z <= U32_BITS THEN fp[2] % Pow2(z) = 0
    ELSE fp[2] = 0 /\ fp[1] % Pow2(z - U32_BITS \div 2) = 0

\* The offsets from w on, below the length of str, at which the fingerprint
\* of the window of the content has no bit of the mask m, in ascending order.
ContentBorders(str, w, m) ==
    LET Hit(o) == And32(Get32(WindowAt(str, w, o)), m) = <<0, 0>>
    IN  SelectSeq([k \in 1..(Len(str) - w) |-> w + k - 1], Hit)

\* C15: a list find_borders returns is strictly ascending, every offset o of
\* it satisfies window_size <= o < length of the stream, and for a stream of
\* exactly window_size bytes it is empty.
C15_OffsetsAscendingInRange ==
    (bpc = "ok") =>
        /\ \A j \in 1..(Len(borders) - 1) : borders[j] < borders[j + 1]
        /\ \A j \in 1..Len(borders) :
              window_size <= borders[j] /\ borders[j] < Len(bstream)
        /\ (Len(bstream) = window_size) => borders = <<>>

\* A returned list of at least two offsets, no read having failed.
C15_Witness ==
    /\ bpc = "ok"
    /\ bfail = "none"
    /\ Len(borders) >= 2
    /\ borders[1] = window_size

\* C16: find_borders called with zerobits > 32 returns an error value, having
\* read no byte of the stream.
C16_TooWideIsErrorValue ==
    (zerobits > U32_BITS /\ bpc # "start") => (bpc = "err" /\ bread = 0)

\* C17: for 0 <= zerobits <= 32 a tested offset is recorded if and only if
\* the zerobits low bits of the fingerprint of its window are all zero (every
\* tested offset for zerobits = 0).
C17_LowBitsDecide ==
    (zerobits <= U32_BITS /\ bpc \in {"scan", "ok"}) =>
        \A o \in window_size..(bi - 1) :
            (\E j \in 1..Len(borders) : borders[j] = o)
                <=> LowBitsZero(Get32(WindowAt(bstream, window_size, o)), zerobits)

\* C18: whatever numbers of bytes the reads return, a call in which no read
\* fails returns a list exactly if the stream has window_size bytes or more,
\* and the list is the one given by the content, the window size and the mask.
C18_DeliveryFree ==
    (bpc \in {"ok", "err"} /\ bfail = "none") =>
        /\ (bpc = "ok") <=> (Len(bstream) >= window_size)
        /\ (bpc = "ok") => borders = ContentBorders(bstream, window_size, mask)

\* A list with an offset, returned after a short read while buf was filled.
C18_Witness ==
    /\ bpc = "ok"
    /\ bfail = "none"
    /\ bshort
    /\ borders # <<>>
    /\ \E k \in 1..Len(bstream) : bstream[k] # 0

\* C20: a read that fails with an I/O error while the stream is scanned past
\* the first window_size bytes makes find_borders return the error.
C20_ScanErrorReturned ==
    (bfail = "scan") => (bpc = "err")

(***************************************************************************)
(* Properties of the OAuth2 log-in flow.                                   *)
(***************************************************************************)

\* The successors of each state that the comments of LogInState name, and
\* Error after a failed exchange.
DocumentedNext ==
    {<<"Start", "WaitingForCode">>, <<"Start", "ReceivedCode">>,
     <<"WaitingForCode", "ReceivedCode">>, <<"ReceivedCode", "ExchangingCode">>,
     <<"ExchangingCode", "Complete">>, <<"ExchangingCode", "Error">>}

\* C21: over any sequence of calls of supply_authorization_code,
\* wait_for_redirect and exchange_code the state changes only along the
\* documented successors; in particular it never leaves Complete.
C21_DocumentedSuccessors ==
    [][state' # state => <<state, state'>> \in DocumentedNext]_vars

\* The values of the parameters named "code" of a query, in order.
RECURSIVE CodeParams(_, _)
CodeParams(pieces, n) ==
    IF n > Len(pieces) THEN <<>>
    ELSE IF Len(pieces[n]) >= 2 /\ pieces[n][1] = "code" /\ pieces[n][2] = "="
         THEN <<SubSeq(pieces[n], 3, Len(pieces[n]))>> \o CodeParams(pieces, n + 1)
         ELSE CodeParams(pieces, n + 1)

ParamsOf(query) == CodeParams(SplitFrom(query[1], "&", 1, <<>>), 1)

\* C23: when exactly one callback request has reached the server,
\* start_and_wait_for_code returns after that request was handled: Ok with the
\* value of the code parameter of the query (of the last one, should there be
\* several), the error "no 'code' parameter ..." for a query without one, the
\* error "no query string ..." without a query; after wait_for_redirect has
\* returned, the server can be started again.
C23_OneRequestResult ==
    /\ (spc = "returned" /\ Arrived = 1) =>
          /\ rpc[1] = "done"
          /\ IF rquery[1] = <<>>
             THEN /\ ~sres[1].ok
                  /\ sres[1].error_description =
                        "no query string was supplied by the callback request"
             ELSE IF ParamsOf(rquery[1]) = <<>>
             THEN /\ ~sres[1].ok
                  /\ sres[1].error_description =
                        "no 'code' parameter supplied in callback request"
             ELSE /\ sres[1].ok
                  /\ sres[1].code =
                        ParamsOf(rquery[1])[Len(ParamsOf(rquery[1]))]
    /\ (fpc = "idle" /\ fcall = "wait" /\ upc = "none") => ENABLED WaitStart

\* One request with two code parameters was handled and the function returned.
C23_Witness ==
    /\ spc = "returned"
    /\ Arrived = 1
    /\ rquery[1] # <<>>
    /\ Len(ParamsOf(rquery[1])) = 2
    /\ sres[1].ok

\* C24: when the abort predicate returns true and no callback request has
\* been received, the wait ends; wait_for_redirect returns an error, sets the
\* state to Error and leaves authz_code alone, and authorize_user returns the
\* error, having called neither on_received_code nor exchange_code.
C24_AbortedWait ==
    /\ [](spc = "draining" /\ sabort /\ Arrived = 0 => ENABLED ServerReturn)
    /\ [][(fpc = "waiting" /\ spc = "returned" /\ sabort /\ Arrived = 0
              /\ fpc' = "idle") =>
             /\ fres' = "Received error from redirect catching server"
             /\ state' = "Error"
             /\ authz_code' = authz_code
             /\ upc # "none" => (upc' = "err" /\ ~on_code' /\ fcall' = "wait")]_vars
    /\ [](upc = "err" => ~ENABLED NextLogIn)

\* authorize_user has returned the error of an aborted wait.
C24_Witness ==
    /\ upc = "err"
    /\ fcall = "wait"
    /\ fpc = "idle"
    /\ sabort
    /\ Arrived = 0
    /\ state = "Error"
    /\ authz_code = <<>>
    /\ ~on_code

\* A step in which exchange_code is called.
ExchangeCalled == ExchangeRejected \/ ExchangeBuildFails \/ ExchangeStart

\* C25: exchange_code called in a state other than ReceivedCode returns the
\* wrong-state error, sends no token request and leaves state and authz_code
\* unchanged; in state ReceivedCode a code is stored, so no call ends with
\* "No code obtained yet!".
C25_WrongStateRejected ==
    /\ [][(ExchangeCalled /\ state # "ReceivedCode") =>
             /\ fres' = "wrong state"
             /\ fpc' = "idle"
             /\ state' = state
             /\ authz_code' = authz_code]_vars
    /\ [](state = "ReceivedCode" => authz_code # <<>>)
    /\ [](fres # "No code obtained yet!")

\* exchange_code was refused in state Complete, with a code still stored.
C25_Witness ==
    /\ fcall = "exchange"
    /\ fres = "wrong state"
    /\ state = "Complete"
    /\ authz_code # <<>>

\* C26: start_and_wait_for_code returns once a callback request has been
\* handled, however many requests were accepted before the shutdown: while it
\* has not returned, the server or a handler can take a step.
C26_ServerReturns ==
    (spc \in {"serving", "draining"} /\ \E h \in 1..MaxRequests : rpc[h] = "done")
        => ENABLED NextLogIn

\* C30: the state becomes Complete only when a token exchange ends with
\* credentials; an exchange that fails after the request was sent returns an
\* error and leaves the state at ExchangingCode, where a next call of
\* exchange_code is refused with the wrong-state error.
C30_CompleteOnlyOnSuccess ==
    /\ [][(state' = "Complete" /\ state # "Complete") =>
             (fpc = "exchanging" /\ fres' = "credentials")]_vars
    /\ [][(fpc = "exchanging" /\ fpc' = "idle" /\ fres' # "credentials") =>
             /\ fres' \in {"transport error", "bad body"}
             /\ state' = "ExchangingCode"]_vars
    /\ [][(ExchangeCalled /\ fcall = "exchange"
              /\ fres \in {"transport error", "bad body"}) =>
             (fres' = "wrong state" /\ state' = "ExchangingCode")]_vars

\* A second exchange_code was refused after the first had failed.
C30_Witness ==
    /\ fcall = "exchange"
    /\ fres = "wrong state"
    /\ state = "ExchangingCode"
    /\ fpc = "idle"

(***************************************************************************)
(* Properties of the Authorizer.                                           *)
(***************************************************************************)

\* A step in which token is called.
TokenCalled == TokenCached \/ TokenPanics \/ RefreshStart

\* C22: token returns the cached token, sending no request, exactly if a
\* token is cached and its age is below expires_in - 30 seconds (for every
\* expires_in, those below 30 included), and refreshes otherwise; the first
\* call on a new Authorizer refreshes.
C22_CachedIffFresh ==
    [][(TokenCalled /\ tpc = "idle") =>
          IF /\ current_token # <<>>
             /\ now - current_token[1].t < cred.expires_in - REFRESH_MARGIN
          THEN /\ tpc' = "idle"
               /\ tres' = [kind |-> "cached", token |-> current_token[1].token,
                           at |-> now]
          ELSE tpc' = "refreshing"]_vars

\* C29: a refresh that fails makes token return an error and leaves the
\* credentials and the cached token as they were; the next call of token
\* refreshes again, with the same refresh token.
C29_FailedRefreshKeeps ==
    /\ [][(tpc = "refreshing" /\ tpc' = "idle" /\ tres'.kind = "err") =>
             /\ cred' = cred
             /\ current_token' = current_token]_vars
    /\ [](tpc = "idle" /\ tres.kind = "err" =>
             /\ ENABLED RefreshStart
             /\ ~ENABLED TokenCached
             /\ cred.refresh_token = treq[1].refresh_token)

\* The refresh of an expired token has failed; the token is still cached.
C29_Witness ==
    /\ tpc = "idle"
    /\ tres.kind = "err"
    /\ tres.token = "bad body"
    /\ current_token # <<>>
    /\ \E c \in CredSample : c.refresh_token # cred.refresh_token

====
